---- MODULE Spec2Model ----
(***************************************************************************)
(* The indicator / signal engine of warroom_analytics (logic/indicators.py, *)
(* class QuantLogic) as a state machine over one pandas DataFrame.         *)
(*                                                                         *)
(* A DataFrame is a function from column names to columns; a column is a   *)
(* sequence of cells.  Row i of the source (0-based) is element i+1 of the *)
(* sequence: At(col, i) reads it, so index arithmetic stays the source's.  *)
(* A numeric cell is a float: <<v>>, <<n, d>> for n/d, or <<>> (NaN).      *)
(* Every comparison with NaN is FALSE, as in IEEE 754 / numpy.             *)
(* The emoji at the end of the source's labels are written by code point   *)
(* ("U+1F680"), since a TLA+ string holds ASCII only.                      *)
(***************************************************************************)
EXTENDS Integers, Sequences, FiniteSets, TLC

VARIABLES
    df,          \* the DataFrame the methods read and mutate in place
    window,      \* the window argument of detect_sfp / detect_divergences
    called,      \* the methods called so far in this run of the script, in call order
    err,         \* exception raised by the last call ("none" when it returned)
    div_signals, \* list returned by the last detect_divergences call
    signals,     \* generate_technical_summary's local list before deduplication
    summary,     \* dict returned by generate_technical_summary
    exchange,    \* what the two exchanges answer to fetch_market_data's requests
    cached,      \* st.cache_data's entry for fetch_market_data: <<>> or <<result>>
    source,      \* the exchange whose candles fetch_market_data returned
    funding,     \* the dict fetch_market_data returned beside the frame
    runs         \* input and output of the completed runs of the script

vars ==
    <<df, window, called, err, div_signals, signals, summary,
      exchange, cached, source, funding, runs>>

\* the variables only fetch_market_data and the script's rerun touch
feed_vars == <<exchange, cached, source, funding, runs>>

----------------------------------------------------------------------------
(* Floats.  A float is NaN, an infinity, or a dyadic rational n/d held in
   lowest terms as <<n>> (d = 1) or <<n, d>> (d a power of two).  Every
   arithmetic result is rounded to the nearest float, ties to even: a float
   has a significand of MantissaBits bits (53 in the source's float64) and
   is a multiple of 2^-QuantumBits (2^-1074 in float64). *)

MantissaBits == 7

QuantumBits == 4

NaN == <<>>

Num(v) == <<v>>

IsNaN(x) == Len(x) = 0

Zero == Num(0)

PosInf == <<1, 0>>

NegInf == <<-1, 0>>

IsInf(x) == Len(x) = 2 /\ x[2] = 0

\* numerator and denominator of a finite float
N(x) == x[1]

D(x) == IF Len(x) = 2 THEN x[2] ELSE 1

Lt(a, b) ==
    /\ ~IsNaN(a)
    /\ ~IsNaN(b)
    /\ IF IsInf(a) \/ IsInf(b)
       THEN a # b /\ (a = NegInf \/ b = PosInf)
       ELSE N(a) * D(b) < N(b) * D(a)

Gt(a, b) == Lt(b, a)

EqNum(a, b) == ~IsNaN(a) /\ ~IsNaN(b) /\ a = b

SetMax(S) == CHOOSE m \in S : \A y \in S : y <= m

SetMin(S) == CHOOSE m \in S : \A y \in S : m <= y

RECURSIVE Pow2(_)
Pow2(k) == IF k = 0 THEN 1 ELSE 2 * Pow2(k - 1)

\* n/d in lowest terms, d a power of two
RECURSIVE Reduce(_, _)
Reduce(n, d) ==
    IF d = 1 THEN <<n>>
    ELSE IF n % 2 = 0 THEN Reduce(n \div 2, d \div 2)
    ELSE <<n, d>>

\* the integer nearest to a/b (a >= 0, b > 0), a tie going to the even one
RoundHalfEven(a, b) ==
    LET f == a \div b
        r == a % b
    IN  IF 2 * r < b THEN f
        ELSE IF 2 * r > b THEN f + 1
        ELSE IF f % 2 = 0 THEN f
        ELSE f + 1

\* the least k >= 0 for which a/(b * 2^k) has an integer part below 2^MantissaBits
RECURSIVE Exponent(_, _)
Exponent(a, b) == IF a \div b < Pow2(MantissaBits) THEN 0 ELSE 1 + Exponent(a, 2 * b)

\* the float nearest to the rational p/q (q > 0)
Fl(p, q) ==
    LET a == (IF p < 0 THEN -p ELSE p) * Pow2(QuantumBits)
        k == Exponent(a, q)
        m == RoundHalfEven(a, q * Pow2(k)) * Pow2(k)
    IN  Reduce(IF p < 0 THEN -m ELSE m, Pow2(QuantumBits))

Neg(a) ==
    IF IsNaN(a) THEN NaN
    ELSE IF Len(a) = 2 THEN <<-a[1], a[2]>>
    ELSE <<-a[1]>>

FAdd(a, b) ==
    IF IsNaN(a) \/ IsNaN(b) THEN NaN
    ELSE IF IsInf(a) THEN (IF IsInf(b) /\ a # b THEN NaN ELSE a)
    ELSE IF IsInf(b) THEN b
    ELSE Fl(N(a) * D(b) + N(b) * D(a), D(a) * D(b))

Sub(a, b) == FAdd(a, Neg(b))

FMul(a, b) ==
    IF IsNaN(a) \/ IsNaN(b) THEN NaN
    ELSE IF IsInf(a) \/ IsInf(b)
    THEN (IF N(a) = 0 \/ N(b) = 0 THEN NaN
          ELSE IF (N(a) > 0) = (N(b) > 0) THEN PosInf ELSE NegInf)
    ELSE Fl(N(a) * N(b), D(a) * D(b))

\* numpy division: x/0 is an infinity, 0/0 and inf/inf are NaN, nothing raises
FDiv(a, b) ==
    IF IsNaN(a) \/ IsNaN(b) THEN NaN
    ELSE IF IsInf(b) THEN (IF IsInf(a) THEN NaN ELSE Num(0))
    ELSE IF IsInf(a) THEN (IF (N(a) > 0) = (N(b) >= 0) THEN PosInf ELSE NegInf)
    ELSE IF N(b) = 0
    THEN (IF N(a) = 0 THEN NaN ELSE IF N(a) > 0 THEN PosInf ELSE NegInf)
    ELSE IF N(b) > 0 THEN Fl(N(a) * D(b), D(a) * N(b))
    ELSE Fl(-(N(a) * D(b)), D(a) * (-N(b)))

----------------------------------------------------------------------------
(* pandas *)

\* col.iloc[i] / col[i] on a RangeIndex, i 0-based
At(col, i) == col[i + 1]

\* the 0-based row indices of a column
Rows(col) == 0 .. (Len(col) - 1)

\* df[c] = col : adds the column or replaces it, other columns untouched
SetCol(d, c, col) ==
    [k \in (DOMAIN d) \cup {c} |-> IF k = c THEN col ELSE d[k]]

HasCols(d, cs) == cs \subseteq DOMAIN d

\* main.py calls each method once per fetched frame
NotCalled(method) == \A k \in 1 .. Len(called) : called[k] # method

\* Series.diff(): NaN on the first row
Diff(col) ==
    [j \in 1 .. Len(col) |-> IF j = 1 THEN NaN ELSE Sub(col[j], col[j - 1])]

\* Series.shift(1)
Shift1(col) ==
    [j \in 1 .. Len(col) |-> IF j = 1 THEN NaN ELSE col[j - 1]]

\* The values of the w cells ending at j (1-based); needs j >= w
WindowVals(col, j, w) == {col[k] : k \in {m \in (j - w + 1) .. j : ~IsNaN(col[m])}}

\* The least and the greatest of a set of floats, none of them NaN
FMin(S) == CHOOSE m \in S : \A y \in S : ~Lt(y, m)

FMax(S) == CHOOSE m \in S : \A y \in S : ~Lt(m, y)

\* A column with every cell computed, once
Series(col) == col \o <<>>

WindowFull(col, j, w) == j >= w /\ \A k \in (j - w + 1) .. j : ~IsNaN(col[k])

\* (rolling with min_periods=1: a value as soon as one observation is there)
MutRollingMin(col, w) ==
    [j \in 1 .. Len(col) |->
        LET vals == {col[k] : k \in {m \in 1 .. j : m > j - w /\ ~IsNaN(col[m])}}
        IN  IF vals = {} THEN NaN ELSE FMin(vals)]

\* Series.rolling(window=w).min(): NaN until w observations are in the window
RollingMin(col, w) ==
    [j \in 1 .. Len(col) |->
        IF WindowFull(col, j, w) THEN FMin(WindowVals(col, j, w)) ELSE NaN]

RollingMax(col, w) ==
    [j \in 1 .. Len(col) |->
        IF WindowFull(col, j, w) THEN FMax(WindowVals(col, j, w)) ELSE NaN]

----------------------------------------------------------------------------
(* identify_oi_regime *)

LongBuildup == "Long Buildup U+1F7E2"

ShortCovering == "Short Covering U+1F47B"

ShortBuildup == "Short Buildup U+1F534"

LongLiq == "Long Liq U+1FA78"

Neutral == "Neutral"

\* np.select(conditions, choices, default='Neutral') on one row:
\* the first condition that holds decides
MutRegimeSelect(pc, oc) ==
    IF Gt(pc, Zero) /\ Gt(oc, Zero) THEN LongBuildup
    ELSE IF Gt(pc, Zero) /\ Lt(oc, Zero) THEN ShortCovering
    ELSE IF Lt(pc, Zero) /\ Gt(oc, Zero) THEN ShortBuildup
    ELSE IF Lt(pc, Zero) THEN LongLiq
    ELSE Neutral

RegimeSelect(pc, oc) ==
    IF Gt(pc, Zero) /\ Gt(oc, Zero) THEN LongBuildup
    ELSE IF Gt(pc, Zero) /\ Lt(oc, Zero) THEN ShortCovering
    ELSE IF Lt(pc, Zero) /\ Gt(oc, Zero) THEN ShortBuildup
    ELSE IF Lt(pc, Zero) /\ Lt(oc, Zero) THEN LongLiq
    ELSE Neutral

RegimeCol(price_change, oi_change) ==
    [j \in 1 .. Len(price_change) |-> RegimeSelect(price_change[j], oi_change[j])]

\* The frame identify_oi_regime leaves behind.  df['close'] and df['oi'] raise
\* KeyError when the column is absent; price_change is assigned before 'oi'
\* is read.
identify_oi_regime(d) ==
    IF "close" \notin DOMAIN d THEN d
    ELSE LET d1 == SetCol(d, "price_change", Diff(d["close"]))
         IN  IF "oi" \notin DOMAIN d THEN d1
             ELSE LET d2 == SetCol(d1, "oi_change", Diff(d["oi"]))
                  IN  SetCol(d2, "regime",
                             RegimeCol(d2["price_change"], d2["oi_change"]))

IdentifyOiRegime ==
    /\ NotCalled("identify_oi_regime")
    /\ err = "none"
    /\ df' = identify_oi_regime(df)
    /\ err' = IF HasCols(df, {"close", "oi"}) THEN "none" ELSE "KeyError"
    /\ called' = Append(called, "identify_oi_regime")
    /\ UNCHANGED <<window, div_signals, signals, summary, feed_vars>>

----------------------------------------------------------------------------
(* detect_sfp *)

NoSignal == "None"

BullishSFP == "Bullish SFP U+1F680"

BearishSFP == "Bearish SFP U+1F53B"

\* (the rolling minimum not shifted: the row's own low is in its window)
MutBullSfp(d, w) ==
    LET rolling_min == RollingMin(d["low"], w)
    IN  [j \in 1 .. Len(d["low"]) |->
            Lt(d["low"][j], rolling_min[j]) /\ Gt(d["close"][j], rolling_min[j])]

\* bull_sfp = (df['low'] < rolling_min) & (df['close'] > rolling_min)
bull_sfp(d, w) ==
    LET rolling_min == Shift1(RollingMin(d["low"], w))
    IN  [j \in 1 .. Len(d["low"]) |->
            Lt(d["low"][j], rolling_min[j]) /\ Gt(d["close"][j], rolling_min[j])]

\* bear_sfp = (df['high'] > rolling_max) & (df['close'] < rolling_max)
bear_sfp(d, w) ==
    LET rolling_max == Shift1(RollingMax(d["high"], w))
    IN  [j \in 1 .. Len(d["high"]) |->
            Gt(d["high"][j], rolling_max[j]) /\ Lt(d["close"][j], rolling_max[j])]

\* df.loc[bull_sfp, ..] = Bullish, then df.loc[bear_sfp, ..] = Bearish:
\* the second assignment overwrites the first where both masks hold
MutSfpCol(bull, bear) ==
    [j \in 1 .. Len(bull) |->
        IF bull[j] THEN BullishSFP ELSE IF bear[j] THEN BearishSFP ELSE NoSignal]

SfpCol(bull, bear) ==
    [j \in 1 .. Len(bull) |->
        IF bear[j] THEN BearishSFP ELSE IF bull[j] THEN BullishSFP ELSE NoSignal]

\* Number of rows of the frame (every column has the same length)
NRows(d) == IF DOMAIN d = {} THEN 0 ELSE Len(d[CHOOSE c \in DOMAIN d : TRUE])

\* The frame detect_sfp leaves behind: sfp_signal = None is assigned before
\* any candle column is read.
detect_sfp(d, w) ==
    LET d1 == SetCol(d, "sfp_signal", [j \in 1 .. NRows(d) |-> NoSignal])
    IN  IF ~HasCols(d, {"low", "close", "high"}) THEN d1
        ELSE SetCol(d1, "sfp_signal", SfpCol(bull_sfp(d, w), bear_sfp(d, w)))

DetectSfp ==
    /\ NotCalled("detect_sfp")
    /\ err = "none"
    /\ df' = detect_sfp(df, window)
    /\ err' = IF HasCols(df, {"low", "close", "high"}) THEN "none" ELSE "KeyError"
    /\ called' = Append(called, "detect_sfp")
    /\ UNCHANGED <<window, div_signals, signals, summary, feed_vars>>

----------------------------------------------------------------------------
(* detect_divergences *)

DefaultWindow == 5

RecentSearch == 20

PrevSearch == 50

Indicators == <<"rsi", "mfi", "cmf", "macd">>

\* ind.upper()
Upper(ind) ==
    CASE ind = "rsi" -> "RSI"
      [] ind = "mfi" -> "MFI"
      [] ind = "cmf" -> "CMF"
      [] ind = "macd" -> "MACD"

\* f"{polarity} {ind.upper()} Divergence"
DivText(polarity, ind) == polarity \o " " \o Upper(ind) \o " Divergence"

\* (no rejection of the rows near the ends: the slice is clipped to the series)
MutIsPeak(series, idx, w) ==
    /\ idx >= 0
    /\ idx < Len(series)
    /\ ~IsNaN(At(series, idx))
    /\ \A k \in (idx - w) .. (idx + w) :
          (k >= 0 /\ k < Len(series)) => ~Gt(At(series, k), At(series, idx))

\* series[idx] == series[idx-w:idx+w+1].max(): max() skips NaN cells, and row
\* idx lies in the slice, so the two are equal iff no cell of the slice exceeds
\* the (defined) cell at idx
is_peak(series, idx, w) ==
    IF idx < w \/ idx >= Len(series) - w THEN FALSE
    ELSE /\ ~IsNaN(At(series, idx))
         /\ \A k \in (idx - w) .. (idx + w) : ~Gt(At(series, k), At(series, idx))

is_trough(series, idx, w) ==
    IF idx < w \/ idx >= Len(series) - w THEN FALSE
    ELSE /\ ~IsNaN(At(series, idx))
         /\ \A k \in (idx - w) .. (idx + w) : ~Lt(At(series, k), At(series, idx))

\* idx = -1; for i in range(start, stop, -1): if is_peak(..): idx = i; break
RECURSIVE find_peak(_, _, _, _)
find_peak(series, start, stop, w) ==
    IF start <= stop THEN -1
    ELSE IF is_peak(series, start, w) THEN start
    ELSE find_peak(series, start - 1, stop, w)

RECURSIVE find_trough(_, _, _, _)
find_trough(series, start, stop, w) ==
    IF start <= stop THEN -1
    ELSE IF is_trough(series, start, w) THEN start
    ELSE find_trough(series, start - 1, stop, w)

\* last_idx = len(df) - 2
last_idx(d) == NRows(d) - 2

\* (a search of 10 rows only)
MutPricePeakIdx(d, w) ==
    find_peak(d["high"], last_idx(d), last_idx(d) - 10, w)

\* range(last_idx, last_idx - 20, -1)
price_peak_idx(d, w) ==
    find_peak(d["high"], last_idx(d), last_idx(d) - RecentSearch, w)

\* range(price_peak_idx - 1, price_peak_idx - 50, -1)
prev_price_peak_idx(d, p, w) == find_peak(d["high"], p - 1, p - PrevSearch, w)

price_trough_idx(d, w) ==
    find_trough(d["low"], last_idx(d), last_idx(d) - RecentSearch, w)

prev_price_trough_idx(d, p, w) == find_trough(d["low"], p - 1, p - PrevSearch, w)

\* The four rows the searches of one loop pass find; they do not depend on
\* the oscillator, so every pass finds the same ones.  -1: not found.
Extrema(d, w) ==
    LET p == price_peak_idx(d, w)
        t == price_trough_idx(d, w)
    IN  [peak |-> p,
         prev_peak |-> IF p # -1 THEN prev_price_peak_idx(d, p, w) ELSE -1,
         trough |-> t,
         prev_trough |-> IF t # -1 THEN prev_price_trough_idx(d, t, w) ELSE -1]

\* Price HH, indicator LH at the two peak rows
MutBearishDiv(d, ind, x) ==
    /\ x.peak # -1
    /\ x.prev_peak # -1
    /\ Gt(At(d["high"], x.peak), At(d["high"], x.prev_peak))
    /\ ~Gt(At(d[ind], x.peak), At(d[ind], x.prev_peak))

BearishDiv(d, ind, x) ==
    /\ x.peak # -1
    /\ x.prev_peak # -1
    /\ Gt(At(d["high"], x.peak), At(d["high"], x.prev_peak))
    /\ Lt(At(d[ind], x.peak), At(d[ind], x.prev_peak))

\* Price LL, indicator HL at the two trough rows
BullishDiv(d, ind, x) ==
    /\ x.trough # -1
    /\ x.prev_trough # -1
    /\ Lt(At(d["low"], x.trough), At(d["low"], x.prev_trough))
    /\ Gt(At(d[ind], x.trough), At(d[ind], x.prev_trough))

\* One pass of the loop body: the signals appended for indicator ind
DivFor(d, ind, x) ==
    IF ind \notin DOMAIN d THEN <<>>
    ELSE (IF BearishDiv(d, ind, x) THEN <<DivText("Bearish", ind)>> ELSE <<>>)
         \o (IF BullishDiv(d, ind, x) THEN <<DivText("Bullish", ind)>> ELSE <<>>)

\* The list detect_divergences returns (when it returns)
detect_divergences(d, w) ==
    LET x == Extrema(d, w)
    IN  DivFor(d, Indicators[1], x) \o DivFor(d, Indicators[2], x)
        \o DivFor(d, Indicators[3], x) \o DivFor(d, Indicators[4], x)

\* (the index is checked against the end of the series only)
MutCallReads(series, idx, w) ==
    IF idx >= Len(series) - w THEN {} ELSE (idx - w) .. (idx + w)

\* The rows one call of is_peak / is_trough reads: none when the index is
\* rejected by the first line, else series[idx] and series[idx-w:idx+w+1]
CallReads(series, idx, w) ==
    IF idx < w \/ idx >= Len(series) - w THEN {} ELSE (idx - w) .. (idx + w)

\* The indices one search tries: from start downwards, to the row it found
\* (break) or to the last one of the range
Tried(start, stop, found) == (IF found = -1 THEN stop + 1 ELSE found) .. start

SearchReads(series, start, stop, found, w) ==
    UNION {CallReads(series, i, w) : i \in Tried(start, stop, found)}

\* The two .iloc reads of a comparison, made when both rows were found
IlocReads(p, q) == IF p # -1 /\ q # -1 THEN {p, q} ELSE {}

\* The rows of the frame one pass of the loop reads (every pass reads the
\* same ones; no pass is made when the frame has no oscillator column)
RowsRead(d, w) ==
    IF \A k \in 1 .. Len(Indicators) : Indicators[k] \notin DOMAIN d THEN {}
    ELSE LET x == Extrema(d, w)
             l == last_idx(d)
         IN  SearchReads(d["high"], l, l - RecentSearch, x.peak, w)
             \cup (IF x.peak = -1 THEN {}
                   ELSE SearchReads(d["high"], x.peak - 1, x.peak - PrevSearch,
                                    x.prev_peak, w))
             \cup IlocReads(x.peak, x.prev_peak)
             \cup SearchReads(d["low"], l, l - RecentSearch, x.trough, w)
             \cup (IF x.trough = -1 THEN {}
                   ELSE SearchReads(d["low"], x.trough - 1, x.trough - PrevSearch,
                                    x.prev_trough, w))
             \cup IlocReads(x.trough, x.prev_trough)

\* df['high'] / df['low'] are read as soon as one oscillator column is present
DivergencesRaise(d) ==
    /\ \E k \in 1 .. Len(Indicators) : Indicators[k] \in DOMAIN d
    /\ ~HasCols(d, {"high", "low"})

DetectDivergences ==
    /\ NotCalled("detect_divergences")
    /\ err = "none"
    /\ IF DivergencesRaise(df)
       THEN err' = "KeyError" /\ UNCHANGED div_signals
       ELSE err' = "none" /\ div_signals' = detect_divergences(df, window)
    /\ called' = Append(called, "detect_divergences")
    /\ UNCHANGED <<df, window, signals, summary, feed_vars>>

----------------------------------------------------------------------------
(* generate_technical_summary *)

RsiOversold == 30

RsiOverbought == 70

\* 0.05, cmf cells being held in hundredths
CmfThreshold == 5

StochOversold == 20

StochOverbought == 80

StrongBullish == "STRONG BULLISH U+1F680"

Bullish == "BULLISH U+1F7E2"

StrongBearish == "STRONG BEARISH U+1FA78"

Bearish == "BEARISH U+1F534"

NeutralSentiment == "NEUTRAL U+2696 U+FE0F"

SummaryCols ==
    {"close", "vwap", "rsi", "cmf", "macd", "macd_signal",
     "bb_lower", "bb_upper", "stoch_k", "stoch_d"}

\* last = df.iloc[-1]; last[c]
Last(d, c) == d[c][NRows(d)]

\* `word in div`, div one of the texts detect_divergences builds
InText(word, div) == \E k \in 1 .. Len(Indicators) : div = DivText(word, Indicators[k])

\* 0. for div in div_signals: +2 if "Bullish" in div, -2 if "Bearish" in div
RECURSIVE DivScore(_, _)
DivScore(divs, k) ==
    IF k = 0 THEN 0
    ELSE DivScore(divs, k - 1)
         + (IF InText("Bullish", divs[k]) THEN 2 ELSE 0)
         - (IF InText("Bearish", divs[k]) THEN 2 ELSE 0)

\* Each rule yields the signals it appends and its score delta.
Rule(texts, delta) == [texts |-> texts, delta |-> delta]

\* (if / elif: nothing when close is neither above nor below vwap)
MutVwapRule(d) ==
    IF Gt(Last(d, "close"), Last(d, "vwap"))
    THEN Rule(<<"Price > VWAP (Bullish Trend)">>, 1)
    ELSE IF Lt(Last(d, "close"), Last(d, "vwap"))
    THEN Rule(<<"Price < VWAP (Bearish Trend)">>, -1)
    ELSE Rule(<<>>, 0)

\* 1. VWAP Analysis (if / else)
VwapRule(d) ==
    IF Gt(Last(d, "close"), Last(d, "vwap"))
    THEN Rule(<<"Price > VWAP (Bullish Trend)">>, 1)
    ELSE Rule(<<"Price < VWAP (Bearish Trend)">>, -1)

\* (an oversold RSI worth three points)
MutRsiRule(d) ==
    IF Lt(Last(d, "rsi"), Num(RsiOversold))
    THEN Rule(<<"RSI Oversold (Bullish Reversal Potential)">>, 3)
    ELSE IF Gt(Last(d, "rsi"), Num(RsiOverbought))
    THEN Rule(<<"RSI Overbought (Bearish Reversal Potential)">>, -2)
    ELSE Rule(<<>>, 0)

\* 2. RSI Analysis (if / elif)
RsiRule(d) ==
    IF Lt(Last(d, "rsi"), Num(RsiOversold))
    THEN Rule(<<"RSI Oversold (Bullish Reversal Potential)">>, 2)
    ELSE IF Gt(Last(d, "rsi"), Num(RsiOverbought))
    THEN Rule(<<"RSI Overbought (Bearish Reversal Potential)">>, -2)
    ELSE Rule(<<>>, 0)

\* 3. Money Flow (CMF) (if / elif)
CmfRule(d) ==
    IF Gt(Last(d, "cmf"), Num(CmfThreshold))
    THEN Rule(<<"CMF Positive (Inflow)">>, 1)
    ELSE IF Lt(Last(d, "cmf"), Num(-CmfThreshold))
    THEN Rule(<<"CMF Negative (Outflow)">>, -1)
    ELSE Rule(<<>>, 0)

\* 4. MACD (if / else)
MacdRule(d) ==
    IF Gt(Last(d, "macd"), Last(d, "macd_signal"))
    THEN Rule(<<"MACD Bullish Crossover">>, 1)
    ELSE Rule(<<"MACD Bearish Crossover">>, -1)

\* 5. Bollinger Bands (if / elif)
BollingerRule(d) ==
    IF Lt(Last(d, "close"), Last(d, "bb_lower"))
    THEN Rule(<<"Price Below BB Lower (Oversold)">>, 1)
    ELSE IF Gt(Last(d, "close"), Last(d, "bb_upper"))
    THEN Rule(<<"Price Above BB Upper (Overbought)">>, -1)
    ELSE Rule(<<>>, 0)

\* 6. Stochastic RSI (if / elif)
StochRule(d) ==
    IF Lt(Last(d, "stoch_k"), Num(StochOversold))
       /\ Gt(Last(d, "stoch_k"), Last(d, "stoch_d"))
    THEN Rule(<<"Stoch RSI Oversold & Crossing Up">>, 1)
    ELSE IF Gt(Last(d, "stoch_k"), Num(StochOverbought))
            /\ Lt(Last(d, "stoch_k"), Last(d, "stoch_d"))
    THEN Rule(<<"Stoch RSI Overbought & Crossing Down">>, -1)
    ELSE Rule(<<>>, 0)

\* The six rules in the order the function evaluates them
Rules(d) ==
    <<VwapRule(d), RsiRule(d), CmfRule(d), MacdRule(d), BollingerRule(d), StochRule(d)>>

RECURSIVE RuleTexts(_, _)
RuleTexts(rs, k) == IF k = 0 THEN <<>> ELSE RuleTexts(rs, k - 1) \o rs[k].texts

RECURSIVE RuleScore(_, _)
RuleScore(rs, k) == IF k = 0 THEN 0 ELSE RuleScore(rs, k - 1) + rs[k].delta

\* The local list `signals` when the rules are through
EmittedSignals(d, divs) == divs \o RuleTexts(Rules(d), Len(Rules(d)))

\* The local `score` when the rules are through
Score(d, divs) == DivScore(divs, Len(divs)) + RuleScore(Rules(d), Len(Rules(d)))

\* (the strong tiers one point early)
MutSentiment(score) ==
    IF score >= 2 THEN StrongBullish
    ELSE IF score >= 1 THEN Bullish
    ELSE IF score <= -2 THEN StrongBearish
    ELSE IF score <= -1 THEN Bearish
    ELSE NeutralSentiment

\* Determine Overall Sentiment
Sentiment(score) ==
    IF score >= 3 THEN StrongBullish
    ELSE IF score >= 1 THEN Bullish
    ELSE IF score <= -3 THEN StrongBearish
    ELSE IF score <= -1 THEN Bearish
    ELSE NeutralSentiment

\* (a colour name outside the palette)
MutColor(score) ==
    IF score >= 3 THEN "green"
    ELSE IF score >= 1 THEN "lightgreen"
    ELSE IF score <= -3 THEN "red"
    ELSE IF score <= -1 THEN "salmon"
    ELSE "grey"

Color(score) ==
    IF score >= 3 THEN "green"
    ELSE IF score >= 1 THEN "lightgreen"
    ELSE IF score <= -3 THEN "red"
    ELSE IF score <= -1 THEN "salmon"
    ELSE "gray"

Elems(seq) == {seq[k] : k \in 1 .. Len(seq)}

\* (each new text put in front: the order is lost)
RECURSIVE MutUniqueSignals(_, _)
MutUniqueSignals(sigs, k) ==
    IF k = 0 THEN <<>>
    ELSE LET unique_signals == MutUniqueSignals(sigs, k - 1)
         IN  IF sigs[k] \in Elems(unique_signals) THEN unique_signals
             ELSE <<sigs[k]>> \o unique_signals

\* Remove duplicates while preserving order: the loop over signals[1..k]
RECURSIVE UniqueSignals(_, _)
UniqueSignals(sigs, k) ==
    IF k = 0 THEN <<>>
    ELSE LET unique_signals == UniqueSignals(sigs, k - 1)
         IN  IF sigs[k] \in Elems(unique_signals) THEN unique_signals
             ELSE Append(unique_signals, sigs[k])

\* df.iloc[-1] raises IndexError on an empty frame; a missing column raises
\* KeyError (in detect_divergences or at last[c])
SummaryRaises(d) ==
    \/ NRows(d) = 0
    \/ DivergencesRaise(d)
    \/ ~HasCols(d, SummaryCols)

\* (the score counted on from the summary returned before)
MutGenerateTechnicalSummary(d, divs) ==
    LET score == summary.score + Score(d, divs)
        emitted == EmittedSignals(d, divs)
    IN  [sentiment |-> Sentiment(score),
         score |-> score,
         signals |-> UniqueSignals(emitted, Len(emitted)),
         color |-> Color(score)]

\* score = 0, signals = []; the divergences, the six rules, the tiers
generate_technical_summary(d, divs) ==
    LET score == Score(d, divs)
        emitted == EmittedSignals(d, divs)
    IN  [sentiment |-> Sentiment(score),
         score |-> score,
         signals |-> UniqueSignals(emitted, Len(emitted)),
         color |-> Color(score)]

NoSummary == [sentiment |-> "", score |-> 0, signals |-> <<>>, color |-> ""]

GenerateTechnicalSummary ==
    /\ NotCalled("generate_technical_summary")
    /\ err = "none"
    /\ IF SummaryRaises(df)
       THEN /\ err' = IF NRows(df) = 0 THEN "IndexError" ELSE "KeyError"
            /\ UNCHANGED <<div_signals, signals, summary>>
       ELSE /\ err' = "none"
            /\ div_signals' = detect_divergences(df, DefaultWindow)
            /\ signals' = EmittedSignals(df, div_signals')
            /\ summary' = generate_technical_summary(df, div_signals')
    /\ called' = Append(called, "generate_technical_summary")
    /\ UNCHANGED <<df, window, feed_vars>>

\* method was called and returned (after an exception nothing more is called)
Returned(method) ==
    \E k \in 1 .. Len(called) :
        called[k] = method /\ (k < Len(called) \/ err = "none")

----------------------------------------------------------------------------
(* DataFeed.fetch_market_data *)

\* pd.DataFrame()
EmptyFrame == <<>>

NoExchange == <<>>

\* vol * 0.5
Half == <<1, 2>>

\* (the taker-buy volume taken to be the whole volume)
MutBybitTaker(vol) == FMul(vol, Num(1))

\* 'taker_buy_vol': vol * 0.5
bybit_taker(vol) == FMul(vol, Half)

\* The frame built from Binance's kline rows
binance_candles(response) ==
    LET n == Len(response)
    IN  [timestamp |-> [j \in 1 .. n |-> Num(j)],
         open |-> [j \in 1 .. n |-> response[j].open],
         high |-> [j \in 1 .. n |-> response[j].high],
         low |-> [j \in 1 .. n |-> response[j].low],
         close |-> [j \in 1 .. n |-> response[j].close],
         volume |-> [j \in 1 .. n |-> response[j].volume],
         taker_buy_vol |-> [j \in 1 .. n |-> response[j].taker_buy_vol]]

\* The frame built from Bybit's OHLCV rows, which carry no taker-buy volume
bybit_candles(ohlcv) ==
    LET n == Len(ohlcv)
    IN  [timestamp |-> [j \in 1 .. n |-> Num(j)],
         open |-> [j \in 1 .. n |-> ohlcv[j].open],
         high |-> [j \in 1 .. n |-> ohlcv[j].high],
         low |-> [j \in 1 .. n |-> ohlcv[j].low],
         close |-> [j \in 1 .. n |-> ohlcv[j].close],
         volume |-> [j \in 1 .. n |-> ohlcv[j].volume],
         taker_buy_vol |-> [j \in 1 .. n |-> bybit_taker(ohlcv[j].volume)]]

\* pd.merge(df, oi_df, on='timestamp', how='left'): the cell of each of the
\* frame's n timestamps, NaN where the history has none
Merged(col, n) == [j \in 1 .. n |-> IF j <= Len(col) THEN col[j] ELSE NaN]

\* Series.ffill(), cell k
RECURSIVE FfillAt(_, _)
FfillAt(col, k) ==
    IF k = 0 THEN NaN
    ELSE IF IsNaN(col[k]) THEN FfillAt(col, k - 1)
    ELSE col[k]

Ffill(col) == [j \in 1 .. Len(col) |-> FfillAt(col, j)]

\* (Bybit's open interest taken when Binance's is not to be had)
MutWithOi(d, ex) ==
    IF ex.in_binance /\ ~ex.oi_raise
    THEN SetCol(d, "oi", Ffill(Merged(ex.oi, Len(d["close"]))))
    ELSE SetCol(d, "oi", Ffill(Merged(ex.oi_bybit_amount, Len(d["close"]))))

\* 2. Binance OI: merged and forward-filled, or 0 when the symbol is not on
\* Binance or the request raised
with_oi(d, ex) ==
    IF ex.in_binance /\ ~ex.oi_raise
    THEN SetCol(d, "oi", Ffill(Merged(ex.oi, Len(d["close"]))))
    ELSE SetCol(d, "oi", [j \in 1 .. Len(d["close"]) |-> Num(0)])

\* Bybit OI: amount * close
with_oi_bybit(d, ex) ==
    IF ex.in_bybit /\ ~ex.oi_bybit_raise
    THEN LET amount == Ffill(Merged(ex.oi_bybit_amount, Len(d["close"])))
             d1 == SetCol(d, "oi_bybit_amount", amount)
         IN  SetCol(d1, "oi_bybit",
                    [j \in 1 .. Len(amount) |-> FMul(amount[j], d["close"][j])])
    ELSE SetCol(d, "oi_bybit", [j \in 1 .. Len(d["close"]) |-> Num(0)])

\* 3. {"binance": funding_binance, "bybit": funding_bybit}, each {} unless fetched
funding_rates(ex) ==
    <<<<"binance", IF ex.in_binance /\ ~ex.funding_binance_raise THEN "rate" ELSE "{}">>,
      <<"bybit", IF ex.in_bybit /\ ~ex.funding_bybit_raise THEN "rate" ELSE "{}">>>>

\* return pd.DataFrame(), {}
NoData == [df |-> EmptyFrame, funding |-> <<>>, source |-> "none"]

\* (Bybit asked first, Binance only when Bybit does not list the symbol)
MutFetchMarketData(ex) ==
    IF ~ex.load_ok THEN NoData
    ELSE LET bybit == ex.in_bybit
             binance == ~bybit /\ ex.in_binance /\ ~ex.klines_raise
         IN  IF bybit /\ ex.ohlcv_raise THEN NoData
             ELSE IF ~binance /\ ~bybit THEN NoData
             ELSE LET candles == IF binance THEN binance_candles(ex.klines)
                                 ELSE bybit_candles(ex.ohlcv)
                  IN  IF Len(candles["close"]) = 0 THEN NoData
                      ELSE [df |-> with_oi_bybit(with_oi(candles, ex), ex),
                            funding |-> funding_rates(ex),
                            source |-> IF binance THEN "binance" ELSE "bybit"]

\* What the body of fetch_market_data returns against the exchanges ex.  An
\* exception of load_markets or of Bybit's fetch_ohlcv reaches the outer
\* handler; one of Binance's kline request falls through to Bybit.
fetch_market_data(ex) ==
    IF ~ex.load_ok THEN NoData
    ELSE LET binance == ex.in_binance /\ ~ex.klines_raise
             bybit == ~binance /\ ex.in_bybit
         IN  IF bybit /\ ex.ohlcv_raise THEN NoData
             ELSE IF ~binance /\ ~bybit THEN NoData
             ELSE LET candles == IF binance THEN binance_candles(ex.klines)
                                 ELSE bybit_candles(ex.ohlcv)
                  IN  IF Len(candles["close"]) = 0 THEN NoData
                      ELSE [df |-> with_oi_bybit(with_oi(candles, ex), ex),
                            funding |-> funding_rates(ex),
                            source |-> IF binance THEN "binance" ELSE "bybit"]

\* @st.cache_data: a call within the entry's lifetime returns a copy of the
\* stored result, any other call runs the body and stores what it returns.
\* No exception leaves the function.
FetchMarketData ==
    /\ NotCalled("fetch_market_data")
    /\ err = "none"
    /\ exchange # NoExchange
    /\ LET result == IF cached # <<>> THEN cached[1] ELSE fetch_market_data(exchange[1])
       IN  /\ df' = result.df
           /\ funding' = result.funding
           /\ source' = result.source
           /\ cached' = <<result>>
    /\ called' = Append(called, "fetch_market_data")
    /\ UNCHANGED <<window, err, div_signals, signals, summary, exchange, runs>>

\* main.py goes on to the transforms only with a frame that is not empty
Fetched == Returned("fetch_market_data") /\ DOMAIN df # {}

----------------------------------------------------------------------------
(* calculate_vwap, calculate_cvd *)

\* The running sums of the cells lo .. hi (1-based) on top of acc, the cells
\* added one by one in row order (the rows halved only to work the sums
\* out); with skipna a NaN cell is left out of the sum
RECURSIVE RunningFrom(_, _, _, _, _)
RunningFrom(acc, col, lo, hi, skipna) ==
    IF lo > hi THEN <<>>
    ELSE IF lo = hi
    THEN <<IF skipna /\ IsNaN(col[lo]) THEN acc ELSE FAdd(acc, col[lo])>>
    ELSE LET mid == (lo + hi) \div 2
             left == RunningFrom(acc, col, lo, mid, skipna)
         IN  left \o RunningFrom(left[Len(left)], col, mid + 1, hi, skipna)

\* Series.cumsum(): NaN cells are skipped and stay NaN
CumSum(col) ==
    LET sums == RunningFrom(Zero, col, 1, Len(col), TRUE)
    IN  [j \in 1 .. Len(col) |-> IF IsNaN(col[j]) THEN NaN ELSE sums[j]]

\* ndarray.cumsum(): a NaN cell makes every later sum NaN
NpCumSum(col) == RunningFrom(Zero, col, 1, Len(col), FALSE)

\* (df['high'] + df['low'] + df['close']) / 3
typical_price(d) ==
    [j \in 1 .. Len(d["close"]) |->
        FDiv(FAdd(FAdd(d["high"][j], d["low"][j]), d["close"][j]), Num(3))]

\* (the plain running mean of the typical price, the volume left out)
MutCalculateVwap(d) ==
    IF ~HasCols(d, {"volume", "high", "low", "close"}) THEN d
    ELSE LET tp == CumSum(typical_price(d))
         IN  SetCol(d, "vwap", [j \in 1 .. Len(tp) |-> FDiv(tp[j], Num(j))])

\* df['vwap'] = (tp * v).cumsum() / v.cumsum(); a missing column raises
\* KeyError before anything is written
calculate_vwap(d) ==
    IF ~HasCols(d, {"volume", "high", "low", "close"}) THEN d
    ELSE LET v == d["volume"]
             tp == typical_price(d)
             pv == CumSum([j \in 1 .. Len(v) |-> FMul(tp[j], v[j])])
             cv == NpCumSum(v)
         IN  SetCol(d, "vwap", [j \in 1 .. Len(v) |-> FDiv(pv[j], cv[j])])

CalculateVwap ==
    /\ NotCalled("calculate_vwap")
    /\ err = "none"
    /\ df' = calculate_vwap(df)
    /\ err' = IF HasCols(df, {"volume", "high", "low", "close"}) THEN "none" ELSE "KeyError"
    /\ called' = Append(called, "calculate_vwap")
    /\ UNCHANGED <<window, div_signals, signals, summary, feed_vars>>

\* (the running sum restarted on every row)
MutCvdCol(delta) == delta

\* df['delta'].cumsum()
CvdCol(delta) == CumSum(delta)

\* taker_sell_vol = volume - taker_buy_vol; delta = taker_buy_vol -
\* taker_sell_vol; cvd = delta.cumsum(); a missing column raises KeyError
\* before anything is written
calculate_cvd(d) ==
    IF ~HasCols(d, {"volume", "taker_buy_vol"}) THEN d
    ELSE LET n == Len(d["volume"])
             sell == [j \in 1 .. n |-> Sub(d["volume"][j], d["taker_buy_vol"][j])]
             delta == [j \in 1 .. n |-> Sub(d["taker_buy_vol"][j], sell[j])]
         IN  SetCol(SetCol(SetCol(d, "taker_sell_vol", sell), "delta", delta),
                    "cvd", CvdCol(delta))

CalculateCvd ==
    /\ NotCalled("calculate_cvd")
    /\ err = "none"
    /\ df' = calculate_cvd(df)
    /\ err' = IF HasCols(df, {"volume", "taker_buy_vol"}) THEN "none" ELSE "KeyError"
    /\ called' = Append(called, "calculate_cvd")
    /\ UNCHANGED <<window, div_signals, signals, summary, feed_vars>>

----------------------------------------------------------------------------
(* calculate_rsi, calculate_mfi, calculate_obv, calculate_cmf *)

RsiPeriod == 14

MfiPeriod == 14

CmfPeriod == 20

\* The w cells ending at row j (1-based), added up in row order
WindowSum(col, j, w) == RunningFrom(Zero, col, j - w + 1, j, FALSE)[w]

\* Series.rolling(window=w).sum(): NaN until w observations are in the window
RollingSum(col, w) ==
    Series([j \in 1 .. Len(col) |->
        IF WindowFull(col, j, w) THEN WindowSum(col, j, w) ELSE NaN])

\* Series.rolling(window=w).mean()
RollingMean(col, w) ==
    Series([j \in 1 .. Len(col) |->
        IF WindowFull(col, j, w) THEN FDiv(WindowSum(col, j, w), Num(w)) ELSE NaN])

\* delta.where(delta > 0, 0): 0 wherever the condition is False, the NaN of
\* the first row included
Gains(delta) == [j \in 1 .. Len(delta) |-> IF Gt(delta[j], Zero) THEN delta[j] ELSE Zero]

\* -delta.where(delta < 0, 0)
Losses(delta) ==
    [j \in 1 .. Len(delta) |-> Neg(IF Lt(delta[j], Zero) THEN delta[j] ELSE Zero)]

\* 100 - (100 / (1 + rs)); rs is infinite where the divisor of the ratio is 0
\* and the dividend is not, NaN where both are 0
StrengthIndex(up, down) ==
    Series([j \in 1 .. Len(up) |->
        Sub(Num(100), FDiv(Num(100), FAdd(Num(1), FDiv(up[j], down[j]))))])

\* The rsi series of calculate_rsi and of calculate_stoch_rsi
Rsi(close, period) ==
    LET delta == Series(Diff(close))
    IN  StrengthIndex(RollingMean(Gains(delta), period),
                      RollingMean(Losses(delta), period))

\* df['rsi'] = 100 - (100 / (1 + gain / loss))
calculate_rsi(d) ==
    IF "close" \notin DOMAIN d THEN d
    ELSE SetCol(d, "rsi", Rsi(d["close"], RsiPeriod))

CalculateRsi ==
    /\ NotCalled("calculate_rsi")
    /\ err = "none"
    /\ df' = calculate_rsi(df)
    /\ err' = IF HasCols(df, {"close"}) THEN "none" ELSE "KeyError"
    /\ called' = Append(called, "calculate_rsi")
    /\ UNCHANGED <<window, div_signals, signals, summary, feed_vars>>

\* pos_flow / neg_flow: 0.0, but the money flow on the rows where the typical
\* price rose / fell
Flow(money_flow, tp_diff, up) ==
    [j \in 1 .. Len(money_flow) |->
        IF (IF up THEN Gt(tp_diff[j], Zero) ELSE Lt(tp_diff[j], Zero))
        THEN money_flow[j] ELSE Zero]

\* df['mfi'] = 100 - (100 / (1 + pos_mf / neg_mf))
calculate_mfi(d) ==
    IF ~HasCols(d, {"high", "low", "close", "volume"}) THEN d
    ELSE LET tp == Series(typical_price(d))
             money_flow == Series([j \in 1 .. Len(tp) |-> FMul(tp[j], d["volume"][j])])
             tp_diff == Series(Diff(tp))
             pos_mf == RollingSum(Flow(money_flow, tp_diff, TRUE), MfiPeriod)
             neg_mf == RollingSum(Flow(money_flow, tp_diff, FALSE), MfiPeriod)
         IN  SetCol(d, "mfi", StrengthIndex(pos_mf, neg_mf))

CalculateMfi ==
    /\ NotCalled("calculate_mfi")
    /\ err = "none"
    /\ df' = calculate_mfi(df)
    /\ err' = IF HasCols(df, {"high", "low", "close", "volume"}) THEN "none" ELSE "KeyError"
    /\ called' = Append(called, "calculate_mfi")
    /\ UNCHANGED <<window, div_signals, signals, summary, feed_vars>>

\* np.sign
Sign(x) ==
    IF IsNaN(x) THEN NaN ELSE IF Lt(x, Zero) THEN Num(-1) ELSE IF Gt(x, Zero) THEN Num(1) ELSE Zero

\* Series.fillna(0)
FillNa0(col) == [j \in 1 .. Len(col) |-> IF IsNaN(col[j]) THEN Zero ELSE col[j]]

\* df['obv'] = (np.sign(df['close'].diff()) * df['volume']).fillna(0).cumsum()
calculate_obv(d) ==
    IF ~HasCols(d, {"close", "volume"}) THEN d
    ELSE LET delta == Series(Diff(d["close"]))
             signed == [j \in 1 .. Len(delta) |-> FMul(Sign(delta[j]), d["volume"][j])]
         IN  SetCol(d, "obv", Series(CumSum(Series(FillNa0(signed)))))

CalculateObv ==
    /\ NotCalled("calculate_obv")
    /\ err = "none"
    /\ df' = calculate_obv(df)
    /\ err' = IF HasCols(df, {"close", "volume"}) THEN "none" ELSE "KeyError"
    /\ called' = Append(called, "calculate_obv")
    /\ UNCHANGED <<window, div_signals, signals, summary, feed_vars>>

\* ((close - low) - (high - close)) / (high - low)
mf_multiplier(d) ==
    [j \in 1 .. Len(d["close"]) |->
        FDiv(Sub(Sub(d["close"][j], d["low"][j]), Sub(d["high"][j], d["close"][j])),
             Sub(d["high"][j], d["low"][j]))]

\* df['cmf'] = mf_volume.rolling(period).sum() / volume.rolling(period).sum(),
\* the cell held in hundredths
calculate_cmf(d) ==
    IF ~HasCols(d, {"high", "low", "close", "volume"}) THEN d
    ELSE LET mult == mf_multiplier(d)
             mf_volume == Series([j \in 1 .. Len(mult) |-> FMul(mult[j], d["volume"][j])])
             flow == RollingSum(mf_volume, CmfPeriod)
             volume == RollingSum(d["volume"], CmfPeriod)
         IN  SetCol(d, "cmf",
                    Series([j \in 1 .. Len(flow) |->
                        FMul(Num(100), FDiv(flow[j], volume[j]))]))

CalculateCmf ==
    /\ NotCalled("calculate_cmf")
    /\ err = "none"
    /\ df' = calculate_cmf(df)
    /\ err' = IF HasCols(df, {"high", "low", "close", "volume"}) THEN "none" ELSE "KeyError"
    /\ called' = Append(called, "calculate_cmf")
    /\ UNCHANGED <<window, div_signals, signals, summary, feed_vars>>

----------------------------------------------------------------------------
(* calculate_bollinger_bands, calculate_macd, calculate_stoch_rsi *)

BollingerPeriod == 20

BollingerStdDev == 2

MacdFast == 12

MacdSlow == 26

MacdSignal == 9

StochPeriod == 14

SmoothK == 3

SmoothD == 3

\* floor of the square root of a natural number
ISqrt(x) == CHOOSE s \in 0 .. x : s * s <= x /\ (s + 1) * (s + 1) > x

\* sqrt: the float nearest to the root (the root taken to half a quantum, an
\* inexact one marked as lying above)
FSqrt(x) ==
    IF IsNaN(x) \/ Lt(x, Zero) THEN NaN
    ELSE IF IsInf(x) THEN x
    ELSE LET k == QuantumBits + 1
             scaled == (N(x) * Pow2(2 * k)) \div D(x)
             s == ISqrt(scaled)
         IN  IF s * s = scaled THEN Fl(s, Pow2(k)) ELSE Fl(2 * s + 1, Pow2(k + 1))

\* The squared deviations from m of the w cells ending at row j, added up
WindowSquares(col, j, w, m) ==
    WindowSum([k \in 1 .. Len(col) |-> FMul(Sub(col[k], m), Sub(col[k], m))], j, w)

\* Series.rolling(window=w).std(): the sample standard deviation (ddof=1)
RollingStd(col, w) ==
    Series([j \in 1 .. Len(col) |->
        IF WindowFull(col, j, w)
        THEN LET m == FDiv(WindowSum(col, j, w), Num(w))
             IN  FSqrt(FDiv(WindowSquares(col, j, w, m), Num(w - 1)))
        ELSE NaN])

\* bb_mid, bb_std, bb_upper = bb_mid + bb_std * std_dev, bb_lower likewise
calculate_bollinger_bands(d) ==
    IF "close" \notin DOMAIN d THEN d
    ELSE LET bb_mid == RollingMean(d["close"], BollingerPeriod)
             bb_std == RollingStd(d["close"], BollingerPeriod)
             width == Series([j \in 1 .. Len(bb_std) |-> FMul(bb_std[j], Num(BollingerStdDev))])
             d1 == SetCol(SetCol(d, "bb_mid", bb_mid), "bb_std", bb_std)
             d2 == SetCol(d1, "bb_upper",
                          Series([j \in 1 .. Len(width) |-> FAdd(bb_mid[j], width[j])]))
         IN  SetCol(d2, "bb_lower",
                    Series([j \in 1 .. Len(width) |-> Sub(bb_mid[j], width[j])]))

CalculateBollingerBands ==
    /\ NotCalled("calculate_bollinger_bands")
    /\ err = "none"
    /\ df' = calculate_bollinger_bands(df)
    /\ err' = IF HasCols(df, {"close"}) THEN "none" ELSE "KeyError"
    /\ called' = Append(called, "calculate_bollinger_bands")
    /\ UNCHANGED <<window, div_signals, signals, summary, feed_vars>>

\* alpha = 1 / (1 + com), com = (span - 1) / 2
Alpha(span) == FDiv(Num(1), FAdd(Num(1), FDiv(Num(span - 1), Num(2))))

\* One step of ewm(adjust=False).mean(): the old mean weighted 1 - alpha, the
\* new cell alpha, a mean equal to the cell left as it is
EwmStep(weighted, cur, alpha) ==
    LET old_wt == Sub(Num(1), alpha)
    IN  IF weighted = cur THEN weighted
        ELSE FDiv(FAdd(FMul(old_wt, weighted), FMul(alpha, cur)), FAdd(old_wt, alpha))

\* The means of rows lo .. hi that follow the mean acc of row lo - 1
RECURSIVE EwmFrom(_, _, _, _, _)
EwmFrom(acc, col, lo, hi, alpha) ==
    IF lo > hi THEN <<>>
    ELSE IF lo = hi THEN <<EwmStep(acc, col[lo], alpha)>>
    ELSE LET mid == (lo + hi) \div 2
             left == EwmFrom(acc, col, lo, mid, alpha)
         IN  left \o EwmFrom(left[Len(left)], col, mid + 1, hi, alpha)

\* Series.ewm(span=span, adjust=False).mean() of a series holding no NaN:
\* the first mean is the first cell
Ewm(col, span) ==
    IF Len(col) = 0 THEN <<>>
    ELSE <<col[1]>> \o EwmFrom(col[1], col, 2, Len(col), Alpha(span))

\* ema_fast, ema_slow, macd = ema_fast - ema_slow, macd_signal, macd_hist
calculate_macd(d) ==
    IF "close" \notin DOMAIN d THEN d
    ELSE LET ema_fast == Ewm(d["close"], MacdFast)
             ema_slow == Ewm(d["close"], MacdSlow)
             macd == Series([j \in 1 .. Len(ema_fast) |-> Sub(ema_fast[j], ema_slow[j])])
             macd_signal == Ewm(macd, MacdSignal)
             d1 == SetCol(SetCol(d, "ema_fast", ema_fast), "ema_slow", ema_slow)
             d2 == SetCol(SetCol(d1, "macd", macd), "macd_signal", macd_signal)
         IN  SetCol(d2, "macd_hist",
                    Series([j \in 1 .. Len(macd) |-> Sub(macd[j], macd_signal[j])]))

CalculateMacd ==
    /\ NotCalled("calculate_macd")
    /\ err = "none"
    /\ df' = calculate_macd(df)
    /\ err' = IF HasCols(df, {"close"}) THEN "none" ELSE "KeyError"
    /\ called' = Append(called, "calculate_macd")
    /\ UNCHANGED <<window, div_signals, signals, summary, feed_vars>>

\* (the rsi column of the frame read, where the source works it out again)
MutCalculateStochRsi(d) ==
    IF ~HasCols(d, {"close", "rsi"}) THEN d
    ELSE LET rsi == d["rsi"]
             min_rsi == Series(RollingMin(rsi, StochPeriod))
             max_rsi == Series(RollingMax(rsi, StochPeriod))
             stoch == Series([j \in 1 .. Len(rsi) |->
                         FMul(FDiv(Sub(rsi[j], min_rsi[j]), Sub(max_rsi[j], min_rsi[j])),
                              Num(100))])
             stoch_k == RollingMean(stoch, SmoothK)
         IN  SetCol(SetCol(d, "stoch_k", stoch_k), "stoch_d", RollingMean(stoch_k, SmoothD))

\* rsi worked out from close as in calculate_rsi; stoch = (rsi - min_rsi) /
\* (max_rsi - min_rsi) * 100; stoch_k and stoch_d its rolling means
calculate_stoch_rsi(d) ==
    IF "close" \notin DOMAIN d THEN d
    ELSE LET rsi == Rsi(d["close"], StochPeriod)
             min_rsi == Series(RollingMin(rsi, StochPeriod))
             max_rsi == Series(RollingMax(rsi, StochPeriod))
             stoch == Series([j \in 1 .. Len(rsi) |->
                         FMul(FDiv(Sub(rsi[j], min_rsi[j]), Sub(max_rsi[j], min_rsi[j])),
                              Num(100))])
             stoch_k == RollingMean(stoch, SmoothK)
         IN  SetCol(SetCol(d, "stoch_k", stoch_k), "stoch_d", RollingMean(stoch_k, SmoothD))

CalculateStochRsi ==
    /\ NotCalled("calculate_stoch_rsi")
    /\ err = "none"
    /\ df' = calculate_stoch_rsi(df)
    /\ err' = IF HasCols(df, {"close"}) THEN "none" ELSE "KeyError"
    /\ called' = Append(called, "calculate_stoch_rsi")
    /\ UNCHANGED <<window, div_signals, signals, summary, feed_vars>>

----------------------------------------------------------------------------
(* Input frames *)

MaxRegimeRows == 4

MaxSfpRows == 5

MaxSfpWindow == 3

MaxDivRows == 5

ConstCol(n, x) == [j \in 1 .. n |-> x]

AscCol(n) == [j \in 1 .. n |-> Num(j)]

DescCol(n) == [j \in 1 .. n |-> Num(n + 1 - j)]

\* col with its first k cells undefined (an indicator's warm-up rows)
WarmCol(col, k) == [j \in 1 .. Len(col) |-> IF j <= k THEN NaN ELSE col[j]]

SetLast(col, x) == [j \in 1 .. Len(col) |-> IF j = Len(col) THEN x ELSE col[j]]

\* base everywhere, except value va at row a and vb at row b (0-based rows)
Spike(n, base, a, va, b, vb) ==
    [j \in 1 .. n |-> Num(IF j = a + 1 THEN va ELSE IF j = b + 1 THEN vb ELSE base)]

NumCol(ints) == [j \in 1 .. Len(ints) |-> Num(ints[j])]

\* The script's state when a run starts and nothing has been fetched before
FreshScript ==
    /\ called = <<>>
    /\ err = "none"
    /\ div_signals = <<>>
    /\ signals = <<>>
    /\ summary = NoSummary
    /\ cached = <<>>
    /\ source = "none"
    /\ funding = <<>>
    /\ runs = <<>>

\* The same with the frame in hand and no exchange to ask
Fresh == FreshScript /\ exchange = NoExchange

(* identify_oi_regime: every close / oi column of up to MaxRegimeRows rows.
   oi is 0 when no open interest was fetched and NaN on rows the merge left
   unfilled. *)
CloseCells == {Num(1), Num(2)}

OiCells == {NaN, Num(0), Num(1)}

InitRegime ==
    /\ Fresh
    /\ window = DefaultWindow
    /\ \E n \in 1 .. MaxRegimeRows :
         \E c \in [1 .. n -> CloseCells], o \in [1 .. n -> OiCells] :
            df = [close |-> c, oi |-> o]

NextRegime == IdentifyOiRegime

SpecRegime == InitRegime /\ [][NextRegime]_vars

(* detect_sfp: every series of up to MaxSfpRows candles, and every 10-row
   series, over a few candles chosen so that a sweep of the lows, a sweep of
   the highs, and both at once occur. *)
Candle(l, h, c) == [low |-> Num(l), high |-> Num(h), close |-> Num(c)]

SfpCandles == {Candle(1, 3, 2), Candle(3, 5, 4), Candle(0, 4, 2), Candle(2, 4, 2)}

TenRowCandles == {Candle(1, 3, 2), Candle(3, 5, 4), Candle(0, 4, 2)}

\* The frame whose rows are the candles cs
CandleFrame(cs) ==
    [low |-> [j \in 1 .. Len(cs) |-> cs[j].low],
     high |-> [j \in 1 .. Len(cs) |-> cs[j].high],
     close |-> [j \in 1 .. Len(cs) |-> cs[j].close]]

InitSfp ==
    /\ Fresh
    /\ \/ /\ window \in 1 .. MaxSfpWindow
          /\ \E n \in 1 .. MaxSfpRows :
               \E cs \in [1 .. n -> SfpCandles] : df = CandleFrame(cs)
       \/ /\ window = DefaultWindow
          /\ \E cs \in [1 .. 10 -> TenRowCandles] : df = CandleFrame(cs)

NextSfp == DetectSfp

SpecSfp == InitSfp /\ [][NextSfp]_vars

(* detect_divergences: (a) window 1 on every series of 5 .. MaxDivRows rows
   over three (high, low) rows, each oscillator column ascending or
   descending, with or without two undefined warm-up rows; (b) the default
   window on series of 17 or 18 rows with two spikes of the highs and two
   dips of the lows, each oscillator column absent, ascending, or descending
   with or without six undefined warm-up rows; (c) and (d) below. *)
DivRowSet == {<<5, 3>>, <<6, 3>>, <<5, 2>>}

HighLowFrame(rows) ==
    [high |-> [j \in 1 .. Len(rows) |-> Num(rows[j][1])],
     low |-> [j \in 1 .. Len(rows) |-> Num(rows[j][2])]]

OscShapes(n, warm) ==
    {AscCol(n), DescCol(n), WarmCol(DescCol(n), warm)}

\* d with the oscillator columns cols: cols[k] is the column of Indicators[k],
\* or <<>> when the frame has no such column
WithOscillators(d, cols) ==
    [c \in (DOMAIN d) \cup {Indicators[k] : k \in {m \in 1 .. 4 : cols[m] # <<>>}} |->
        IF c \in DOMAIN d THEN d[c]
        ELSE cols[CHOOSE k \in 1 .. 4 : Indicators[k] = c]]

\* two spikes of the highs over base 5, two dips of the lows under base 3
SpikedFrame(n, a, b, ha, hb, la, lb) ==
    [high |-> Spike(n, 5, a, ha, b, hb), low |-> Spike(n, 3, a, la, b, lb)]

InitDivShort ==
    /\ window = 1
    /\ \E n \in 5 .. MaxDivRows :
         \E rows \in [1 .. n -> DivRowSet] :
            \E cols \in [1 .. 4 -> OscShapes(n, 2)] :
               df = WithOscillators(HighLowFrame(rows), cols)

\* (spike heights at rows a, b) and (dip depths at rows a, b)
SpikePairs == {<<6, 7>>, <<7, 6>>, <<6, 6>>}

DipPairs == {<<2, 1>>, <<1, 2>>}

InitDivSpiked ==
    /\ window = DefaultWindow
    /\ \E n \in 17 .. 18 :
         \E a \in 4 .. 6, b \in (n - 7) .. (n - 5), h \in SpikePairs, l \in DipPairs :
            \E cols \in [1 .. 4 -> {<<>>, AscCol(n), DescCol(n), WarmCol(DescCol(n), 6)}] :
               df = WithOscillators(SpikedFrame(n, a, b, h[1], h[2], l[1], l[2]), cols)

(* (c) the default window on long series whose highs and lows run on a ramp,
   so that no row is a peak or a trough except the rows lifted above (the
   highs) and pushed below (the lows) the ramp. *)
LongRows == 80

\* row i (0-based) of a ramp: i + off when ascending, n - 1 - i + off when
\* descending; the rows in `rows` are moved by `bump`
SpikeRamp(n, dir, off, rows, bump) ==
    [j \in 1 .. n |->
        Num((IF dir = "asc" THEN j - 1 ELSE n - j) + off
            + (IF (j - 1) \in rows THEN bump ELSE 0))]

RampFrame(n, dir, rows) ==
    [high |-> SpikeRamp(n, dir, 30, rows, 10), low |-> SpikeRamp(n, dir, 15, rows, -10)]

\* the most recent extremum p at the near end, at the far end and one row
\* beyond the far end of the 20-row search; the preceding one 49 or 50 rows
\* before p
InitDivLong ==
    /\ window = DefaultWindow
    /\ \E p \in {LongRows - 6, LongRows - 21, LongRows - 22}, g \in {49, 50},
          dir \in {"asc", "desc"} :
          \E r, m \in {AscCol(LongRows), DescCol(LongRows)} :
             df = WithOscillators(RampFrame(LongRows, dir, {p, p - g}),
                                  <<r, m, <<>>, <<>>>>)

\* rsi falling to row 20 and rising after it
VeeCol(n) == [j \in 1 .. n |-> Num(IF j <= 21 THEN 60 - j ELSE 2 * j)]

TwoPeakRows == {22, 25, 26, 41, 42}

\* extrema at rows 10 and 20, on the longer series also at row 27 or not
InitDivTwoPeaks ==
    /\ window = DefaultWindow
    /\ \E n \in TwoPeakRows, dir \in {"asc", "desc"} :
          \E rows \in {{10, 20}} \cup {{10, 20, 27} : k \in {m \in {n} : m >= 33}} :
             \E r \in {AscCol(n), DescCol(n), VeeCol(n)}, m \in {<<>>, DescCol(n)} :
                df = WithOscillators(RampFrame(n, dir, rows), <<r, m, <<>>, <<>>>>)

InitDiv ==
    Fresh /\ (InitDivShort \/ InitDivSpiked \/ InitDivLong \/ InitDivTwoPeaks)

NextDiv == DetectDivergences

SpecDiv == InitDiv /\ [][NextDiv]_vars

(* generate_technical_summary: frames of 17 rows whose last row runs over
   every combination of the cells below (each rule's inputs undefined, on
   either side of its thresholds and on them), and whose earlier rows hold
   no divergence or up to four divergences of either polarity. *)
SummaryRows == 17

LastClose == Num(4)

VwapCells == {NaN, Num(3), Num(4), Num(5)}

RsiCells == {NaN, Num(29), Num(30), Num(70), Num(71)}

CmfCells == {NaN, Num(-6), Num(-5), Num(5), Num(6)}

\* (macd, macd_signal)
MacdCells == {<<NaN, NaN>>, <<Num(0), Num(1)>>, <<Num(1), Num(0)>>, <<Num(1), Num(1)>>}

\* (bb_lower, bb_upper), lower <= upper, both undefined during warm-up
BollingerCells ==
    {<<NaN, NaN>>, <<Num(1), Num(3)>>, <<Num(3), Num(5)>>, <<Num(5), Num(7)>>}

\* (stoch_k, stoch_d)
StochCells ==
    {<<NaN, NaN>>, <<Num(19), Num(10)>>, <<Num(19), Num(50)>>, <<Num(20), Num(10)>>,
     <<Num(81), Num(90)>>, <<Num(80), Num(90)>>}

\* (highs' spikes, lows' dips, rsi column, column of mfi / cmf / macd)
DivScenarios ==
    LET n == SummaryRows
    IN  {<<<<6, 6>>, <<1, 2>>, AscCol(n), AscCol(n)>>}
        \cup {<<<<6, 7>>, <<2, 1>>, r, o>> :
                 r \in {AscCol(n), DescCol(n)},
                 o \in {AscCol(n), DescCol(n), WarmCol(DescCol(n), 6)}}

SummaryFrame(sc, vwap, rsi, cmf, macd, bb, stoch) ==
    LET n == SummaryRows
    IN  [high |-> Spike(n, 5, 5, sc[1][1], 11, sc[1][2]),
         low |-> Spike(n, 3, 5, sc[2][1], 11, sc[2][2]),
         close |-> ConstCol(n, LastClose),
         vwap |-> ConstCol(n, vwap),
         rsi |-> SetLast(sc[3], rsi),
         mfi |-> sc[4],
         cmf |-> SetLast(sc[4], cmf),
         macd |-> SetLast(sc[4], macd[1]),
         macd_signal |-> ConstCol(n, macd[2]),
         bb_lower |-> ConstCol(n, bb[1]),
         bb_upper |-> ConstCol(n, bb[2]),
         stoch_k |-> ConstCol(n, stoch[1]),
         stoch_d |-> ConstCol(n, stoch[2])]

InitSummary ==
    /\ Fresh
    /\ window = DefaultWindow
    /\ \E sc \in DivScenarios, vwap \in VwapCells, rsi \in RsiCells, cmf \in CmfCells,
          macd \in MacdCells, bb \in BollingerCells, stoch \in StochCells :
          df = SummaryFrame(sc, vwap, rsi, cmf, macd, bb, stoch)

NextSummary == GenerateTechnicalSummary

SpecSummary == InitSummary /\ [][NextSummary]_vars

(* main.py: identify_oi_regime, detect_sfp and generate_technical_summary
   called in that order on one frame of 17 rows, which holds the candle
   columns and the columns of the numeric indicators. *)
MainPrices ==
    {<<<<6, 7>>, <<2, 1>>>>, <<<<5, 5>>, <<2, 1>>>>, <<<<6, 7>>, <<3, 3>>>>,
     <<<<5, 5>>, <<3, 3>>>>}

\* close: flat, or rising and falling within the candles' range
MainCloses(n) ==
    {ConstCol(n, LastClose), [j \in 1 .. n |-> Num(IF j % 3 = 2 THEN 5 ELSE 4)]}

MainOis(n) == {ConstCol(n, Num(0)), AscCol(n), DescCol(n), WarmCol(AscCol(n), 2)}

MainFrame(pr, close, oi, osc, vwap, rsi, cmf, macd) ==
    LET n == SummaryRows
        f == SummaryFrame(<<pr[1], pr[2], osc, osc>>, vwap, rsi, cmf, macd,
                          <<Num(3), Num(5)>>, <<NaN, NaN>>)
    IN  SetCol(SetCol(f, "close", close), "oi", oi)

Init ==
    /\ Fresh
    /\ window = DefaultWindow
    /\ \E pr \in MainPrices, close \in MainCloses(SummaryRows), oi \in MainOis(SummaryRows),
          osc \in {AscCol(SummaryRows), DescCol(SummaryRows)},
          vwap \in {NaN, Num(3), Num(5)}, rsi \in {NaN, Num(29), Num(71)},
          cmf \in {Num(-6), Num(0), Num(6)}, macd \in {<<Num(0), Num(1)>>, <<Num(1), Num(0)>>} :
          df = MainFrame(pr, close, oi, osc, vwap, rsi, cmf, macd)

Next ==
    \/ Len(called) = 0 /\ IdentifyOiRegime
    \/ Len(called) = 1 /\ DetectSfp
    \/ Len(called) = 2 /\ GenerateTechnicalSummary

Spec == Init /\ [][Next]_vars

(* fetch_market_data, calculate_vwap, calculate_cvd and identify_oi_regime,
   as main.py calls them: the exchanges hold every series of up to MaxFeedRows candles over
   the six candles below, among them volumes whose sums and differences
   need rounding, and answer as one of the scenarios below.  Volumes are far above the smallest float. *)
MaxFeedRows == 3

Kline(h, l, c, v, t) ==
    [open |-> Num(l), high |-> Num(h), low |-> Num(l), close |-> Num(c),
     volume |-> v, taker_buy_vol |-> t]

FeedKlines ==
    {Kline(3, 1, 2, Num(0), Num(0)), Kline(3, 1, 2, Num(3), Num(3)),
     Kline(5, 3, 4, Num(3), Num(3)), Kline(3, 1, 2, Num(3), Half),
     Kline(5, 3, 4, Num(130), Num(1)), Kline(3, 1, 2, Num(126), Num(126))}

\* Bybit's row of the same candle
Ohlcv(k) ==
    [open |-> k.open, high |-> k.high, low |-> k.low, close |-> k.close,
     volume |-> k.volume]

\* an open-interest history with a gap on its first and fourth timestamp
OiHistory == <<NaN, Num(9), Num(7), NaN, Num(6)>>

\* (markets load, on Binance, on Bybit, Binance klines raise, Bybit OHLCV
\* raises, the open-interest and funding requests raise)
FeedScenarios ==
    {<<TRUE, TRUE, TRUE, FALSE, FALSE, FALSE>>,
     <<TRUE, TRUE, TRUE, TRUE, FALSE, FALSE>>,
     <<TRUE, FALSE, TRUE, FALSE, FALSE, FALSE>>,
     <<TRUE, FALSE, FALSE, FALSE, FALSE, FALSE>>,
     <<FALSE, TRUE, TRUE, FALSE, FALSE, FALSE>>,
     <<TRUE, FALSE, TRUE, FALSE, TRUE, FALSE>>,
     <<TRUE, TRUE, FALSE, FALSE, FALSE, TRUE>>,
     <<TRUE, TRUE, FALSE, TRUE, FALSE, FALSE>>}

Exchange(sc, klines) ==
    [load_ok |-> sc[1], in_binance |-> sc[2], in_bybit |-> sc[3],
     klines_raise |-> sc[4], klines |-> klines,
     ohlcv_raise |-> sc[5], ohlcv |-> [j \in 1 .. Len(klines) |-> Ohlcv(klines[j])],
     oi_raise |-> sc[6], oi |-> OiHistory,
     oi_bybit_raise |-> sc[6], oi_bybit_amount |-> OiHistory,
     funding_binance_raise |-> sc[6], funding_bybit_raise |-> sc[6]]

InitCandle ==
    /\ FreshScript
    /\ window = DefaultWindow
    /\ df = EmptyFrame
    /\ \E n \in 0 .. MaxFeedRows :
         \E klines \in [1 .. n -> FeedKlines], sc \in FeedScenarios :
            exchange = <<Exchange(sc, klines)>>

NextCandle ==
    \/ FetchMarketData
    \/ Fetched /\ Len(called) = 1 /\ CalculateVwap
    \/ Fetched /\ Len(called) = 2 /\ CalculateCvd
    \/ Fetched /\ Len(called) = 3 /\ IdentifyOiRegime

SpecCandle == InitCandle /\ [][NextCandle]_vars

(* main.py from the fetch to the summary, run after run: fetch_market_data,
   the eleven transforms in the script's order, generate_technical_summary,
   then st.rerun().  The exchange holds one of the series below, of
   ShortRows rows (RSI and MFI past their warm-up) or PipelineRows rows
   (every indicator past its warm-up); between two runs the cache entry may
   expire, and the exchanges may by then hold another series. *)
ShortRows == 15

PipelineRows == 31

MaxRuns == 3

Shapes == {"rising", "falling", "flat", "zigzag", "dip", "hump"}

\* close of row j (1-based) of an n-row series
ShapeClose(shape, n, j) ==
    CASE shape = "rising" -> 10 + j
      [] shape = "falling" -> 50 - j
      [] shape = "flat" -> 20
      [] shape = "zigzag" -> 20 + (j % 2)
      [] shape = "dip" -> IF j >= n - 2 THEN 7 + j ELSE 10 + j
      [] shape = "hump" -> IF 2 * j <= n THEN 20 + j ELSE 20 + n - j

ShapeSeries(shape, n) ==
    [j \in 1 .. n |->
        LET c == ShapeClose(shape, n, j)
        IN  Kline(c + 1 + (j % 3), c - 1 - (j % 2), c, Num(1 + (j % 3)), Num(j % 2))]

PipelineSeries == {ShapeSeries(shape, n) : shape \in Shapes, n \in {ShortRows, PipelineRows}}

\* every request answered, the symbol listed on Binance / on Bybit only
OnBinance == <<TRUE, TRUE, TRUE, FALSE, FALSE, FALSE>>

OnBybit == <<TRUE, FALSE, TRUE, FALSE, FALSE, FALSE>>

\* What the exchanges may hold by the next run: the rising series on Bybit
\* only, or after that the series with a dip on Binance
Moved(ex) ==
    IF ex = Exchange(OnBybit, ShapeSeries("rising", ShortRows))
    THEN Exchange(OnBinance, ShapeSeries("dip", PipelineRows))
    ELSE Exchange(OnBybit, ShapeSeries("rising", ShortRows))

\* time.sleep(refresh_rate); st.rerun(): the script starts over.  What the
\* run displayed is kept in runs; the names of the script are bound anew by
\* the next run's calls.
Rerun ==
    /\ Returned("generate_technical_summary")
    /\ Len(runs) < MaxRuns
    /\ runs' = Append(runs, [input |-> cached[1], df |-> df, summary |-> summary])
    /\ called' = <<>>
    /\ \/ cached' = cached /\ exchange' = exchange
       \/ /\ cached' = <<>>
          /\ \E ex \in {exchange[1], Moved(exchange[1])} : exchange' = <<ex>>
    /\ UNCHANGED <<df, window, err, div_signals, signals, summary, source, funding>>

InitPipeline ==
    /\ FreshScript
    /\ window = DefaultWindow
    /\ df = EmptyFrame
    /\ \E series \in PipelineSeries : exchange = <<Exchange(OnBinance, series)>>

NextPipeline ==
    \/ Len(called) = 0 /\ FetchMarketData
    \/ Fetched /\ Len(called) = 1 /\ CalculateVwap
    \/ Len(called) = 2 /\ CalculateCvd
    \/ Len(called) = 3 /\ IdentifyOiRegime
    \/ Len(called) = 4 /\ DetectSfp
    \/ Len(called) = 5 /\ CalculateRsi
    \/ Len(called) = 6 /\ CalculateMfi
    \/ Len(called) = 7 /\ CalculateCmf
    \/ Len(called) = 8 /\ CalculateObv
    \/ Len(called) = 9 /\ CalculateBollingerBands
    \/ Len(called) = 10 /\ CalculateMacd
    \/ Len(called) = 11 /\ CalculateStochRsi
    \/ Len(called) = 12 /\ GenerateTechnicalSummary
    \/ Rerun

SpecPipeline == InitPipeline /\ [][NextPipeline]_vars

(* The eleven transforms applied to one fetched frame in other orders than
   main.py's: that order and its reverse, each started at any of its
   transforms and wrapped around. *)
MainOrder ==
    <<"calculate_vwap", "calculate_cvd", "identify_oi_regime", "detect_sfp",
      "calculate_rsi", "calculate_mfi", "calculate_cmf", "calculate_obv",
      "calculate_bollinger_bands", "calculate_macd", "calculate_stoch_rsi">>

Rotate(order, r) ==
    [k \in 1 .. Len(order) |-> order[((k + r - 1) % Len(order)) + 1]]

Reverse(order) == [k \in 1 .. Len(order) |-> order[Len(order) + 1 - k]]

Orders ==
    {Rotate(MainOrder, r) : r \in 0 .. (Len(MainOrder) - 1)}
    \cup {Rotate(Reverse(MainOrder), r) : r \in 0 .. (Len(MainOrder) - 1)}

\* method is the next transform of some order that starts with the
\* transforms called since the fetch
NextIn(method) ==
    /\ Fetched
    /\ \E order \in Orders :
          /\ Len(called) <= Len(order)
          /\ \A k \in 1 .. (Len(called) - 1) : order[k] = called[k + 1]
          /\ order[Len(called)] = method

\* (the series, the exchange that lists the symbol)
OrderFeeds ==
    {<<ShapeSeries("hump", PipelineRows), OnBinance>>,
     <<ShapeSeries("dip", PipelineRows), OnBybit>>,
     <<ShapeSeries("zigzag", ShortRows), OnBinance>>}

InitOrder ==
    /\ FreshScript
    /\ window = DefaultWindow
    /\ df = EmptyFrame
    /\ \E feed \in OrderFeeds : exchange = <<Exchange(feed[2], feed[1])>>

NextOrder ==
    \/ FetchMarketData
    \/ NextIn("calculate_vwap") /\ CalculateVwap
    \/ NextIn("calculate_cvd") /\ CalculateCvd
    \/ NextIn("identify_oi_regime") /\ IdentifyOiRegime
    \/ NextIn("detect_sfp") /\ DetectSfp
    \/ NextIn("calculate_rsi") /\ CalculateRsi
    \/ NextIn("calculate_mfi") /\ CalculateMfi
    \/ NextIn("calculate_cmf") /\ CalculateCmf
    \/ NextIn("calculate_obv") /\ CalculateObv
    \/ NextIn("calculate_bollinger_bands") /\ CalculateBollingerBands
    \/ NextIn("calculate_macd") /\ CalculateMacd
    \/ NextIn("calculate_stoch_rsi") /\ CalculateStochRsi

SpecOrder == InitOrder /\ [][NextOrder]_vars

(* One transform called on a frame that lacks one of the candle fields. *)
WithoutCol(d, c) == [k \in (DOMAIN d) \ {c} |-> d[k]]

AbsentFields == {"high", "low", "close", "volume", "taker_buy_vol", "oi"}

InitMissing ==
    /\ Fresh
    /\ window = DefaultWindow
    /\ \E n \in {MaxFeedRows, ShortRows}, c \in AbsentFields :
          df = WithoutCol(fetch_market_data(Exchange(OnBinance, ShapeSeries("dip", n))).df, c)

NextMissing ==
    \/ Len(called) = 0 /\ CalculateVwap
    \/ Len(called) = 0 /\ CalculateCvd
    \/ Len(called) = 0 /\ IdentifyOiRegime
    \/ Len(called) = 0 /\ DetectSfp
    \/ Len(called) = 0 /\ CalculateRsi
    \/ Len(called) = 0 /\ CalculateMfi
    \/ Len(called) = 0 /\ CalculateCmf
    \/ Len(called) = 0 /\ CalculateObv
    \/ Len(called) = 0 /\ CalculateBollingerBands
    \/ Len(called) = 0 /\ CalculateMacd
    \/ Len(called) = 0 /\ CalculateStochRsi

SpecMissing == InitMissing /\ [][NextMissing]_vars

(* detect_divergences on series too short to hold two extrema: every length
   from 0 up, under window 1 and under the default window. *)
EdgeFrame(high, low, osc) == [high |-> high, low |-> low, rsi |-> osc]

InitDivEdgeNarrow ==
    /\ window = 1
    /\ \E n \in 0 .. MaxDivRows :
         \E rows \in [1 .. n -> DivRowSet], osc \in {AscCol(n), DescCol(n)} :
            df = EdgeFrame(HighLowFrame(rows).high, HighLowFrame(rows).low, osc)

InitDivEdgeDefault ==
    /\ window = DefaultWindow
    /\ \E n \in 0 .. (2 * DefaultWindow + 2) :
         \E a, b \in 0 .. n, h \in SpikePairs, l \in DipPairs,
            osc \in {AscCol(n), DescCol(n)} :
            /\ a <= b
            /\ df = EdgeFrame(Spike(n, 5, a, h[1], b, h[2]),
                              Spike(n, 3, a, l[1], b, l[2]), osc)

InitDivEdge == Fresh /\ (InitDivEdgeNarrow \/ InitDivEdgeDefault)

SpecDivEdge == InitDivEdge /\ [][NextDiv]_vars

----------------------------------------------------------------------------
(* Claims *)

RegimeLabels == {LongBuildup, ShortCovering, ShortBuildup, LongLiq, Neutral}

\* The label the four-quadrant table gives to the integer changes pc, oc
Quadrant(pc, oc) ==
    CASE pc > 0 /\ oc > 0 -> LongBuildup
      [] pc > 0 /\ oc < 0 -> ShortCovering
      [] pc < 0 /\ oc > 0 -> ShortBuildup
      [] pc < 0 /\ oc < 0 -> LongLiq
      [] pc = 0 \/ oc = 0 -> Neutral

\* C6: after identify_oi_regime every row carries exactly one of the five
\* labels; on a row whose close and oi and those of the row before are
\* defined it is the label of the sign pair of (close[i]-close[i-1],
\* oi[i]-oi[i-1]), Neutral when either change is 0; the first row is Neutral.
C6_RegimeBySignPair ==
    Returned("identify_oi_regime") =>
        \A i \in Rows(df["close"]) :
            /\ At(df["regime"], i) \in RegimeLabels
            /\ i = 0 => At(df["regime"], i) = Neutral
            /\ (i > 0 /\ ~IsNaN(At(df["oi"], i)) /\ ~IsNaN(At(df["oi"], i - 1))) =>
                  At(df["regime"], i) =
                     Quadrant(At(df["close"], i)[1] - At(df["close"], i - 1)[1],
                              At(df["oi"], i)[1] - At(df["oi"], i - 1)[1])

\* C6 witness: a labelled frame with a Long Buildup row, a Long Liquidation
\* row and a later row that is Neutral because the price did not move
C6_Witness ==
    /\ Returned("identify_oi_regime")
    /\ \E i, j, k \in Rows(df["close"]) :
          /\ At(df["regime"], i) = LongBuildup
          /\ At(df["regime"], j) = LongLiq
          /\ k > 0
          /\ At(df["close"], k) = At(df["close"], k - 1)
          /\ At(df["regime"], k) = Neutral

SfpLabels == {BullishSFP, BearishSFP, NoSignal}

\* min(low[lo..hi]) and max(high[lo..hi]) of the frame, rows 0-based
MinLow(lo, hi) == SetMin({At(df["low"], k)[1] : k \in lo .. hi})

MaxHigh(lo, hi) == SetMax({At(df["high"], k)[1] : k \in lo .. hi})

\* low[i] < min(low[lo..hi]) and close[i] > min(low[lo..hi])
SweepsLows(i, lo, hi) ==
    /\ At(df["low"], i)[1] < MinLow(lo, hi)
    /\ At(df["close"], i)[1] > MinLow(lo, hi)

\* high[i] > max(high[lo..hi]) and close[i] < max(high[lo..hi])
SweepsHighs(i, lo, hi) ==
    /\ At(df["high"], i)[1] > MaxHigh(lo, hi)
    /\ At(df["close"], i)[1] < MaxHigh(lo, hi)

\* C7 as claimed: on every row i with a full lookback (i >= w) the bullish
\* condition on the w rows before i gives the Bullish SFP label and the
\* bearish condition gives the Bearish SFP label.
C7_Original ==
    Returned("detect_sfp") =>
        \A i \in Rows(df["low"]) :
            i >= window =>
                /\ SweepsLows(i, i - window, i - 1) =>
                      At(df["sfp_signal"], i) = BullishSFP
                /\ SweepsHighs(i, i - window, i - 1) =>
                      At(df["sfp_signal"], i) = BearishSFP

\* C7 amended: on every row i >= w the bearish condition gives the Bearish
\* SFP label, and the bullish condition gives the Bullish SFP label unless
\* the bearish condition holds on the same row.
C7_BearishOverridesBullish ==
    Returned("detect_sfp") =>
        \A i \in Rows(df["low"]) :
            i >= window =>
                /\ (SweepsLows(i, i - window, i - 1)
                    /\ ~SweepsHighs(i, i - window, i - 1)) =>
                      At(df["sfp_signal"], i) = BullishSFP
                /\ SweepsHighs(i, i - window, i - 1) =>
                      At(df["sfp_signal"], i) = BearishSFP

\* C7 witness: a row that sweeps both the lows and the highs of its lookback
\* and is labelled Bearish SFP
C7_Witness ==
    /\ Returned("detect_sfp")
    /\ \E i \in Rows(df["low"]) :
          /\ i >= window
          /\ SweepsLows(i, i - window, i - 1)
          /\ SweepsHighs(i, i - window, i - 1)
          /\ At(df["sfp_signal"], i) = BearishSFP

TenRowRun ==
    /\ Returned("detect_sfp")
    /\ NRows(df) = 10
    /\ window = DefaultWindow

\* C8 as claimed: in a 10-row series with low[8] < min(low[0..7]) and
\* close[8] > min(low[0..7]), detect_sfp with window 5 labels row 8 Bullish
\* SFP (and so not Bearish SFP).
C8_Original ==
    (TenRowRun /\ SweepsLows(8, 0, 7)) => At(df["sfp_signal"], 8) = BullishSFP

\* C8 amended: in a 10-row series with low[8] < min(low[3..7]) and
\* close[8] > min(low[3..7]), and not both high[8] > max(high[3..7]) and
\* close[8] < max(high[3..7]), detect_sfp with window 5 labels row 8 Bullish
\* SFP (and so not Bearish SFP).
C8_TenRowBullish ==
    (TenRowRun /\ SweepsLows(8, 3, 7) /\ ~SweepsHighs(8, 3, 7)) =>
        At(df["sfp_signal"], 8) = BullishSFP

\* C8 witness: such a 10-row series, whose rows 0..2 hold a lower low than
\* rows 3..7, with row 8 labelled Bullish SFP
C8_Witness ==
    /\ TenRowRun
    /\ SweepsLows(8, 3, 7)
    /\ ~SweepsHighs(8, 3, 7)
    /\ MinLow(0, 2) < MinLow(3, 7)
    /\ At(df["sfp_signal"], 8) = BullishSFP

\* C9 as claimed: every row carries at most one label (Bullish, Bearish or
\* none); a row on which neither condition holds carries none; a row with
\* index i <= w carries none.
C9_Original ==
    Returned("detect_sfp") =>
        \A i \in Rows(df["low"]) :
            /\ At(df["sfp_signal"], i) \in SfpLabels
            /\ (i >= window /\ ~SweepsLows(i, i - window, i - 1)
                /\ ~SweepsHighs(i, i - window, i - 1)) =>
                  At(df["sfp_signal"], i) = NoSignal
            /\ i <= window => At(df["sfp_signal"], i) = NoSignal

\* C9 amended: as claimed, but the rows that never carry a label are those
\* with fewer than w prior rows (index i < w).
C9_UnlabelledRows ==
    Returned("detect_sfp") =>
        \A i \in Rows(df["low"]) :
            /\ At(df["sfp_signal"], i) \in SfpLabels
            /\ (i >= window /\ ~SweepsLows(i, i - window, i - 1)
                /\ ~SweepsHighs(i, i - window, i - 1)) =>
                  At(df["sfp_signal"], i) = NoSignal
            /\ i < window => At(df["sfp_signal"], i) = NoSignal

\* C9 witness: row w, which has exactly w prior rows, carries a label, and a
\* later row on which neither condition holds carries none
C9_Witness ==
    /\ Returned("detect_sfp")
    /\ NRows(df) > window + 1
    /\ At(df["sfp_signal"], window) # NoSignal
    /\ \E i \in Rows(df["low"]) :
          /\ i > window
          /\ ~SweepsLows(i, i - window, i - 1)
          /\ ~SweepsHighs(i, i - window, i - 1)
          /\ At(df["sfp_signal"], i) = NoSignal

Occurrences(seq, x) == Cardinality({k \in 1 .. Len(seq) : seq[k] = x})

DivTexts == {DivText(pol, Indicators[k]) : pol \in {"Bearish", "Bullish"}, k \in 1 .. 4}

\* column ind exists and its cells at rows p and q are defined
DefinedAt(ind, p, q) ==
    /\ ind \in DOMAIN df
    /\ ~IsNaN(At(df[ind], p))
    /\ ~IsNaN(At(df[ind], q))

\* C10: for each oscillator, with p, q the most recent and the preceding
\* high-peak rows: "Bearish <OSC> Divergence" is returned iff both rows were
\* found, the oscillator is defined at both, high[p] > high[q] and
\* osc[p] < osc[q]; likewise "Bullish <OSC> Divergence" on the trough rows
\* with low[p] < low[q] and osc[p] > osc[q]; each text is returned at most
\* once and nothing else is returned.
C10_DivergenceIff ==
    Returned("detect_divergences") =>
        LET x == Extrema(df, window)
        IN  /\ Elems(div_signals) \subseteq DivTexts
            /\ \A k \in 1 .. 4 :
                  LET ind == Indicators[k]
                      bear == DivText("Bearish", ind)
                      bull == DivText("Bullish", ind)
                  IN  /\ Occurrences(div_signals, bear) <= 1
                      /\ Occurrences(div_signals, bull) <= 1
                      /\ bear \in Elems(div_signals) <=>
                            /\ x.peak # -1
                            /\ x.prev_peak # -1
                            /\ DefinedAt(ind, x.peak, x.prev_peak)
                            /\ At(df["high"], x.peak)[1] > At(df["high"], x.prev_peak)[1]
                            /\ At(df[ind], x.peak)[1] < At(df[ind], x.prev_peak)[1]
                      /\ bull \in Elems(div_signals) <=>
                            /\ x.trough # -1
                            /\ x.prev_trough # -1
                            /\ DefinedAt(ind, x.trough, x.prev_trough)
                            /\ At(df["low"], x.trough)[1] < At(df["low"], x.prev_trough)[1]
                            /\ At(df[ind], x.trough)[1] > At(df[ind], x.prev_trough)[1]

\* C10 witness: one call that returns the bearish RSI and the bullish MFI
\* divergence, not the bullish RSI one, and nothing for CMF because CMF is
\* undefined at the preceding peak although the price made a higher high
C10_Witness ==
    /\ Returned("detect_divergences")
    /\ DivText("Bearish", "rsi") \in Elems(div_signals)
    /\ DivText("Bullish", "rsi") \notin Elems(div_signals)
    /\ DivText("Bullish", "mfi") \in Elems(div_signals)
    /\ LET x == Extrema(df, window)
       IN  /\ x.peak # -1
           /\ x.prev_peak # -1
           /\ At(df["high"], x.peak)[1] > At(df["high"], x.prev_peak)[1]
           /\ "cmf" \in DOMAIN df
           /\ IsNaN(At(df["cmf"], x.prev_peak))
           /\ DivText("Bearish", "cmf") \notin Elems(div_signals)

Summarised == Returned("generate_technical_summary")

Returns(text) == text \in Elems(summary.signals)

VwapTexts == {"Price > VWAP (Bullish Trend)", "Price < VWAP (Bearish Trend)"}

RsiTexts ==
    {"RSI Oversold (Bullish Reversal Potential)",
     "RSI Overbought (Bearish Reversal Potential)"}

CmfTexts == {"CMF Positive (Inflow)", "CMF Negative (Outflow)"}

MacdTexts == {"MACD Bullish Crossover", "MACD Bearish Crossover"}

BollingerTexts ==
    {"Price Below BB Lower (Oversold)", "Price Above BB Upper (Overbought)"}

StochTexts ==
    {"Stoch RSI Oversold & Crossing Up", "Stoch RSI Overbought & Crossing Down"}

\* some cell the rule reads on the last row is NaN
Undefined(cols) == \E c \in cols : IsNaN(Last(df, c))

\* +2 per bullish and -2 per bearish divergence of the returned list
DivPoints ==
    2 * Cardinality({k \in 1 .. Len(div_signals) :
                        \E m \in 1 .. 4 : div_signals[k] = DivText("Bullish", Indicators[m])})
    - 2 * Cardinality({k \in 1 .. Len(div_signals) :
                          \E m \in 1 .. 4 : div_signals[k] = DivText("Bearish", Indicators[m])})

\* The text and the delta the rule table gives to one rule: up when the
\* bullish condition holds, down when the bearish one holds, else nothing
Table(up, up_text, up_delta, down, down_text, down_delta) ==
    IF up THEN Rule(<<up_text>>, up_delta)
    ELSE IF down THEN Rule(<<down_text>>, down_delta)
    ELSE Rule(<<>>, 0)

\* The six rows of the rule table on the last row of df; the MACD row is
\* "macd > macd_signal, -1 otherwise"
RuleTable ==
    <<Table(Gt(Last(df, "close"), Last(df, "vwap")), "Price > VWAP (Bullish Trend)", 1,
            Lt(Last(df, "close"), Last(df, "vwap")), "Price < VWAP (Bearish Trend)", -1),
      Table(Lt(Last(df, "rsi"), Num(30)), "RSI Oversold (Bullish Reversal Potential)", 2,
            Gt(Last(df, "rsi"), Num(70)), "RSI Overbought (Bearish Reversal Potential)", -2),
      Table(Gt(Last(df, "cmf"), Num(5)), "CMF Positive (Inflow)", 1,
            Lt(Last(df, "cmf"), Num(-5)), "CMF Negative (Outflow)", -1),
      Table(Gt(Last(df, "macd"), Last(df, "macd_signal")), "MACD Bullish Crossover", 1,
            TRUE, "MACD Bearish Crossover", -1),
      Table(Lt(Last(df, "close"), Last(df, "bb_lower")),
            "Price Below BB Lower (Oversold)", 1,
            Gt(Last(df, "close"), Last(df, "bb_upper")),
            "Price Above BB Upper (Overbought)", -1),
      Table(Lt(Last(df, "stoch_k"), Num(20)) /\ Gt(Last(df, "stoch_k"), Last(df, "stoch_d")),
            "Stoch RSI Oversold & Crossing Up", 1,
            Gt(Last(df, "stoch_k"), Num(80)) /\ Lt(Last(df, "stoch_k"), Last(df, "stoch_d")),
            "Stoch RSI Overbought & Crossing Down", -1)>>

RuleInputs ==
    <<{"close", "vwap"}, {"rsi"}, {"cmf"}, {"macd", "macd_signal"},
      {"close", "bb_lower", "bb_upper"}, {"stoch_k", "stoch_d"}>>

RuleTextSets == <<VwapTexts, RsiTexts, CmfTexts, MacdTexts, BollingerTexts, StochTexts>>

RECURSIVE SumTo(_, _)
SumTo(f, k) == IF k = 0 THEN 0 ELSE SumTo(f, k - 1) + f[k]

\* C1 as claimed: a rule one of whose last-row inputs is NaN returns neither
\* of its texts and adds 0: the score is the divergence points plus the
\* deltas of the rules whose inputs are all defined.
C1_Original ==
    Summarised =>
        /\ \A r \in 1 .. 6 :
              Undefined(RuleInputs[r]) => \A t \in RuleTextSets[r] : ~Returns(t)
        /\ summary.score =
              DivPoints
              + SumTo([r \in 1 .. 6 |->
                          IF Undefined(RuleInputs[r]) THEN 0 ELSE Rules(df)[r].delta], 6)

\* C2: the sentiment and colour are those of the score's tier: >= 3 Strong
\* Bullish / green, 1..2 Bullish / lightgreen, <= -3 Strong Bearish / red,
\* -2..-1 Bearish / salmon, 0 Neutral / gray.
C2_SentimentTiers ==
    Summarised =>
        LET sc == summary.score
            tier == <<summary.sentiment, summary.color>>
        IN  /\ sc >= 3 => tier = <<StrongBullish, "green">>
            /\ sc \in 1 .. 2 => tier = <<Bullish, "lightgreen">>
            /\ sc <= -3 => tier = <<StrongBearish, "red">>
            /\ sc \in -2 .. -1 => tier = <<Bearish, "salmon">>
            /\ sc = 0 => tier = <<NeutralSentiment, "gray">>

\* C2 witness: a summary of score 2, the boundary below Strong Bullish
C2_Witness == Summarised /\ summary.score = 2 /\ summary.sentiment = Bullish

\* C3 as claimed: the score is +2 / -2 per bullish / bearish divergence plus
\* the rule table's deltas for the conditions that hold on the last row, and
\* a rule of which no listed condition holds returns no text.
C3_Original ==
    Summarised =>
        /\ summary.score = DivPoints + SumTo([r \in 1 .. 6 |-> RuleTable[r].delta], 6)
        /\ \A r \in 1 .. 6 :
              RuleTable[r].delta = 0 => \A t \in RuleTextSets[r] : ~Returns(t)

NoRepeat(seq) == \A i, j \in 1 .. Len(seq) : seq[i] = seq[j] => i = j

FirstAt(seq, x) == SetMin({k \in 1 .. Len(seq) : seq[k] = x})

\* C4: the returned signals hold no text twice, hold exactly the emitted
\* texts, and list them by first occurrence in the emitted sequence, which
\* starts with the divergence signals.
C4_UniqueInOrder ==
    Summarised =>
        LET u == summary.signals
        IN  /\ NoRepeat(u)
            /\ Elems(u) = Elems(signals)
            /\ \A i, j \in 1 .. Len(u) :
                  i < j => FirstAt(signals, u[i]) < FirstAt(signals, u[j])
            /\ SubSeq(signals, 1, Len(div_signals)) = div_signals

\* C4 witness: a summary returning four divergence signals followed by the
\* texts of at least four rules
C4_Witness ==
    /\ Summarised
    /\ Len(div_signals) = 4
    /\ Len(summary.signals) >= 8
    /\ SubSeq(summary.signals, 1, 4) = div_signals

Sentiments == {StrongBullish, Bullish, NeutralSentiment, Bearish, StrongBearish}

Colors == {"green", "lightgreen", "gray", "salmon", "red"}

Cells(col) == {df[col][j] : j \in 1 .. Len(df[col])}

\* C5 as claimed: every regime is one of Long Buildup, Short Covering, Short
\* Buildup, Long Liquidation, Neutral; every sfp_signal is Bullish SFP,
\* Bearish SFP or absent; the sentiment is one of Strong Bullish, Bullish,
\* Neutral, Bearish, Strong Bearish; the colour is one of the five tags.
C5_Original ==
    /\ "regime" \in DOMAIN df =>
          Cells("regime") \subseteq
             {"Long Buildup", "Short Covering", "Short Buildup", "Long Liquidation",
              "Neutral"}
    /\ "sfp_signal" \in DOMAIN df =>
          Cells("sfp_signal") \subseteq {"Bullish SFP", "Bearish SFP", NoSignal}
    /\ Summarised =>
          /\ summary.sentiment \in
                {"Strong Bullish", "Bullish", "Neutral", "Bearish", "Strong Bearish"}
          /\ summary.color \in Colors

\* C5 amended: every regime is one of the source's five regime strings,
\* every sfp_signal one of its two SFP strings or None, the sentiment one of
\* its five sentiment strings, the colour one of the five tags.
C5_SourceLabels ==
    /\ "regime" \in DOMAIN df => Cells("regime") \subseteq RegimeLabels
    /\ "sfp_signal" \in DOMAIN df => Cells("sfp_signal") \subseteq SfpLabels
    /\ Summarised =>
          /\ summary.sentiment \in Sentiments
          /\ summary.color \in Colors

\* C5 witness: a frame through all three calls that holds a Long Liq row and
\* a Bullish SFP row, with the neutral sentiment and the gray tag
C5_Witness ==
    /\ Summarised
    /\ LongLiq \in Cells("regime")
    /\ BullishSFP \in Cells("sfp_signal")
    /\ summary.sentiment = NeutralSentiment
    /\ summary.color = "gray"

\* Rows lo .. hi are scanned from hi down to lo: the first row of S met, or -1
FirstDown(S) == IF S = {} THEN -1 ELSE SetMax(S)

\* w <= i <= n-w-1 and col[i] is the maximum / minimum of col[i-w .. i+w]
PeakRow(col, i, w) ==
    /\ w <= i
    /\ i <= Len(col) - w - 1
    /\ At(col, i)[1] = SetMax({At(col, k)[1] : k \in (i - w) .. (i + w)})

TroughRow(col, i, w) ==
    /\ w <= i
    /\ i <= Len(col) - w - 1
    /\ At(col, i)[1] = SetMin({At(col, k)[1] : k \in (i - w) .. (i + w)})

\* The returned list is the one obtained when the most recent peak / trough
\* p is the first qualifying row of n-2, n-3, .., n-1-recent and the
\* preceding one the first qualifying row of p-1, p-2, .., p-prev
SearchedOver(recent, prev) ==
    LET n == NRows(df)
        peaks == {i \in 0 .. (n - 1) : PeakRow(df["high"], i, window)}
        troughs == {i \in 0 .. (n - 1) : TroughRow(df["low"], i, window)}
        p == FirstDown(peaks \cap ((n - 1 - recent) .. (n - 2)))
        q == IF p = -1 THEN -1 ELSE FirstDown(peaks \cap ((p - prev) .. (p - 1)))
        t == FirstDown(troughs \cap ((n - 1 - recent) .. (n - 2)))
        u == IF t = -1 THEN -1 ELSE FirstDown(troughs \cap ((t - prev) .. (t - 1)))
    IN  \A k \in 1 .. 4 :
           Indicators[k] \in DOMAIN df =>
              LET ind == Indicators[k]
              IN  /\ DivText("Bearish", ind) \in Elems(div_signals) <=>
                        /\ p # -1
                        /\ q # -1
                        /\ Gt(At(df["high"], p), At(df["high"], q))
                        /\ Lt(At(df[ind], p), At(df[ind], q))
                  /\ DivText("Bullish", ind) \in Elems(div_signals) <=>
                        /\ t # -1
                        /\ u # -1
                        /\ Lt(At(df["low"], t), At(df["low"], u))
                        /\ Gt(At(df[ind], t), At(df[ind], u))

\* C11 as claimed: the most recent price peak / trough p is the first
\* qualifying row among the 20 rows n-2 .. n-21, and the preceding one is the
\* first qualifying row among the 50 rows p-1 .. p-50, so that a qualifying
\* row exactly 50 rows before p is found when none lies between.
C11_Original == Returned("detect_divergences") => SearchedOver(20, 50)

\* C12: row i is a peak (trough) of the highs (lows) iff w <= i <= n-w-1 and
\* its value equals the maximum (minimum) of rows i-w .. i+w; the rows the
\* searches select are never within w of either end of the series.
C12_PeakIff ==
    Returned("detect_divergences") =>
        LET n == NRows(df)
            x == Extrema(df, window)
        IN  /\ \A i \in 0 .. (n - 1) :
                  /\ is_peak(df["high"], i, window) <=> PeakRow(df["high"], i, window)
                  /\ is_trough(df["low"], i, window) <=> TroughRow(df["low"], i, window)
            /\ {x.peak, x.prev_peak, x.trough, x.prev_trough}
                   \subseteq {-1} \cup (window .. (n - window - 1))

\* C12 witness: the highest high of the series lies on a row within w of the
\* end, and the search selected another row as the most recent peak
C12_Witness ==
    /\ Returned("detect_divergences")
    /\ LET n == NRows(df)
           x == Extrema(df, window)
       IN  /\ x.peak # -1
           /\ \E i \in (n - window) .. (n - 1) :
                 \A k \in 0 .. (n - 1) : k # i => Gt(At(df["high"], i), At(df["high"], k))

\* col[i] is the maximum of the rows of the series within w of row i
LocalPeak(col, i, w) ==
    At(col, i)[1] =
        SetMax({At(col, k)[1] : k \in {m \in (i - w) .. (i + w) : m >= 0 /\ m < Len(col)}})

BearishRsi == DivText("Bearish", "rsi") \in Elems(div_signals)

\* the default-window call returned on a series with rsi whose rows 10 and
\* 20 satisfy high[20] > high[10] and rsi[20] < rsi[10]
HigherHighLowerRsi ==
    /\ Returned("detect_divergences")
    /\ window = DefaultWindow
    /\ NRows(df) >= 22
    /\ "rsi" \in DOMAIN df
    /\ Gt(At(df["high"], 20), At(df["high"], 10))
    /\ Lt(At(df["rsi"], 20), At(df["rsi"], 10))

\* C13 as claimed: on every series whose last row index is at least 21, with
\* local peaks of the highs at rows 10 and 20, high[20] > high[10] and
\* rsi[20] < rsi[10], the returned list contains "Bearish RSI Divergence".
C13_Original ==
    (HigherHighLowerRsi /\ LocalPeak(df["high"], 10, 5) /\ LocalPeak(df["high"], 20, 5))
        => BearishRsi

\* C13 amended: on every series of 26 to 41 rows in which rows 10 and 20 are
\* peaks of the highs for window 5 and no other row from 11 to n-2 is, with
\* high[20] > high[10] and rsi[20] < rsi[10], the list returned for window 5
\* contains "Bearish RSI Divergence".
C13_TwoPeaks ==
    (/\ HigherHighLowerRsi
     /\ NRows(df) \in 26 .. 41
     /\ \A i \in 10 .. (NRows(df) - 2) : PeakRow(df["high"], i, 5) <=> i \in {10, 20})
        => BearishRsi

\* C13 witness: such a series of 41 rows, row 20 being the last row the
\* 20-row search reaches, with the signal returned
C13_Witness ==
    /\ HigherHighLowerRsi
    /\ NRows(df) = 41
    /\ \A i \in 10 .. (NRows(df) - 2) : PeakRow(df["high"], i, 5) <=> i \in {10, 20}
    /\ BearishRsi

\* the float x is exactly the rational p/q
Exactly(x, p, q) == ~IsNaN(x) /\ ~IsInf(x) /\ N(x) * q = p * D(x)

\* the difference / sum of the floats a and b is a float: x = a - b, x = a + b
\* as computed are exact
ExactDiff(x, a, b) == Exactly(x, N(a) * D(b) - N(b) * D(a), D(a) * D(b))

ExactSum(x, a, b) == Exactly(x, N(a) * D(b) + N(b) * D(a), D(a) * D(b))

\* none of the operations that give row i of taker_sell_vol, delta and cvd rounds
CvdRowExact(i) ==
    /\ ExactDiff(At(df["taker_sell_vol"], i), At(df["volume"], i), At(df["taker_buy_vol"], i))
    /\ ExactDiff(At(df["delta"], i), At(df["taker_buy_vol"], i), At(df["taker_sell_vol"], i))
    /\ i > 0 => ExactSum(At(df["cvd"], i), At(df["cvd"], i - 1), At(df["delta"], i))

\* delta[i] == 2*taker_buy_vol[i] - volume[i], and cvd[i] - cvd[i-1] == delta[i]
\* (cvd[0] == delta[0] on the first row), each side evaluated in floats
CvdIdentities(i) ==
    /\ At(df["delta"], i) = Sub(FMul(Num(2), At(df["taker_buy_vol"], i)), At(df["volume"], i))
    /\ IF i = 0 THEN At(df["cvd"], 0) = At(df["delta"], 0)
       ELSE Sub(At(df["cvd"], i), At(df["cvd"], i - 1)) = At(df["delta"], i)

\* C14 as claimed: after calculate_cvd, on every row delta[i] == 2*tbv[i] -
\* volume[i], cvd[0] == delta[0] and cvd[i] - cvd[i-1] == delta[i] for i > 0.
C14_Original ==
    Returned("calculate_cvd") => \A i \in Rows(df["volume"]) : CvdIdentities(i)

\* C14 amended: on every row delta[i] is the float difference taker_buy_vol[i]
\* - (volume[i] - taker_buy_vol[i]), cvd[0] == delta[0] and cvd[i] is the
\* float sum cvd[i-1] + delta[i]; the claimed identities hold on every row
\* on which none of these operations rounds.
C14_CvdUpToRounding ==
    Returned("calculate_cvd") =>
        \A i \in Rows(df["volume"]) :
            /\ At(df["taker_sell_vol"], i) =
                  Sub(At(df["volume"], i), At(df["taker_buy_vol"], i))
            /\ At(df["delta"], i) =
                  Sub(At(df["taker_buy_vol"], i), At(df["taker_sell_vol"], i))
            /\ IF i = 0 THEN At(df["cvd"], 0) = At(df["delta"], 0)
               ELSE At(df["cvd"], i) = FAdd(At(df["cvd"], i - 1), At(df["delta"], i))
            /\ CvdRowExact(i) => CvdIdentities(i)

\* C14 witness: a series with a row whose volume difference rounds, so that
\* delta differs from 2*tbv - volume, and a later row with a non-zero delta on
\* which nothing rounds and the identities hold
C14_Witness ==
    /\ Returned("calculate_cvd")
    /\ \E i, j \in Rows(df["volume"]) :
          /\ ~CvdRowExact(i)
          /\ ~CvdIdentities(i)
          /\ j > i
          /\ CvdRowExact(j)
          /\ At(df["delta"], j) # Num(0)
          /\ CvdIdentities(j)

\* every row has the volume v
ConstantVolume(v) == \A i \in Rows(df["volume"]) : At(df["volume"], i) = v

\* high + low + close of row i, the three being integers
PriceSum(i) == N(At(df["high"], i)) + N(At(df["low"], i)) + N(At(df["close"], i))

RECURSIVE PriceSumTo(_)
PriceSumTo(i) == IF i < 0 THEN 0 ELSE PriceSumTo(i - 1) + PriceSum(i)

\* the integer x is a float
IsFloat(x) == Fl(x, 1) = Num(x)

\* with the integer volume v on every row, no operation before the final
\* division rounds on the way to vwap[i]: the typical prices are integers, and
\* their products with v, the running sums and the summed volume are floats
VwapExactTo(i, v) ==
    \A k \in 0 .. i :
        /\ PriceSum(k) % 3 = 0
        /\ IsFloat((PriceSum(k) \div 3) * v)
        /\ IsFloat((PriceSumTo(k) \div 3) * v)
        /\ IsFloat((k + 1) * v)

\* C15 as claimed: when all rows have the same volume, every vwap[i] equals
\* the arithmetic mean of the typical prices (high+low+close)/3 of rows 0..i.
C15_Original ==
    (Returned("calculate_vwap") /\ \E v \in {At(df["volume"], 0)} : ConstantVolume(v)) =>
        \A i \in Rows(df["volume"]) : Exactly(At(df["vwap"], i), PriceSumTo(i), 3 * (i + 1))

\* C15 amended: when all rows have the same non-zero volume, vwap[i] is the
\* float nearest to the mean of the typical prices of rows 0..i whenever no
\* operation before the final division rounds; when all rows have volume 0,
\* every vwap[i] is NaN.
C15_VwapIsRoundedMean ==
    Returned("calculate_vwap") =>
        LET v == At(df["volume"], 0)
        IN  ConstantVolume(v) =>
               \A i \in Rows(df["volume"]) :
                   IF v = Num(0) THEN IsNaN(At(df["vwap"], i))
                   ELSE (D(v) = 1 /\ VwapExactTo(i, N(v))) =>
                           At(df["vwap"], i) = Fl(PriceSumTo(i), 3 * (i + 1))

\* C15 witness: three rows of volume 3 with typical prices 2, 4, 4: vwap is
\* 2, then the mean 3, then 53/16, the float nearest to the mean 10/3
C15_Witness ==
    /\ Returned("calculate_vwap")
    /\ NRows(df) = 3
    /\ ConstantVolume(Num(3))
    /\ VwapExactTo(2, 3)
    /\ df["vwap"] = <<Num(2), Num(3), <<53, 16>>>>

\* C20: on every series that fetch_market_data built from Bybit's candles,
\* calculate_cvd yields delta[i] == 0 and cvd[i] == 0 on every row.
C20_BybitCvdIsZero ==
    (source = "bybit" /\ Returned("calculate_cvd")) =>
        \A i \in Rows(df["volume"]) :
            At(df["delta"], i) = Num(0) /\ At(df["cvd"], i) = Num(0)

\* C20 witness: Binance's kline request raised, the candles came from Bybit,
\* a candle has the odd volume 3 and another the volume 130, and the cvd
\* column is there
C20_Witness ==
    /\ source = "bybit"
    /\ Returned("calculate_cvd")
    /\ exchange[1].in_binance
    /\ exchange[1].klines_raise
    /\ \E i, j \in Rows(df["volume"]) :
          /\ At(df["volume"], i) = Num(3)
          /\ At(df["taker_buy_vol"], i) = <<3, 2>>
          /\ At(df["volume"], j) = Num(130)
          /\ At(df["cvd"], j) = Num(0)

\* The rolling average loss of calculate_rsi, row by row
AvgLoss(close) == RollingMean(Losses(Series(Diff(close))), RsiPeriod)

\* The rolling negative money flow of calculate_mfi, row by row
NegMf(d) ==
    LET tp == Series(typical_price(d))
        money_flow == Series([j \in 1 .. Len(tp) |-> FMul(tp[j], d["volume"][j])])
    IN  RollingSum(Flow(money_flow, Series(Diff(tp)), FALSE), MfiPeriod)

\* C16: once calculate_rsi has returned, rsi is NaN on every row whose
\* rolling average loss is 0, and once calculate_mfi has returned, mfi is NaN
\* on every row whose rolling negative money flow is 0; neither call raises;
\* and the summary of a frame whose last row has average loss 0 holds none of
\* the RSI texts.
C16_Original ==
    /\ Returned("calculate_rsi") =>
          \A i \in Rows(df["close"]) :
              At(AvgLoss(df["close"]), i) = Zero => IsNaN(At(df["rsi"], i))
    /\ Returned("calculate_mfi") =>
          \A i \in Rows(df["close"]) :
              At(NegMf(df), i) = Zero => IsNaN(At(df["mfi"], i))
    /\ err = "none"
    /\ (Summarised /\ AvgLoss(df["close"])[NRows(df)] = Zero) =>
          \A text \in RsiTexts : ~Returns(text)

\* What a run displayed for the fetched frame d, if an earlier run fetched
\* the same frame
SameAsBefore(d, enriched, result) ==
    \A k \in 1 .. Len(runs) :
        runs[k].input.df = d => runs[k].df = enriched /\ runs[k].summary = result

CandleFields ==
    {"timestamp", "open", "high", "low", "close", "volume", "taker_buy_vol",
     "oi", "oi_bybit", "oi_bybit_amount"}

\* The fields a transform assigns
Writes(method) ==
    CASE method = "calculate_vwap" -> {"vwap"}
      [] method = "calculate_cvd" -> {"taker_sell_vol", "delta", "cvd"}
      [] method = "identify_oi_regime" -> {"price_change", "oi_change", "regime"}
      [] method = "detect_sfp" -> {"sfp_signal"}
      [] method = "calculate_rsi" -> {"rsi"}
      [] method = "calculate_mfi" -> {"mfi"}
      [] method = "calculate_cmf" -> {"cmf"}
      [] method = "calculate_obv" -> {"obv"}
      [] method = "calculate_bollinger_bands" -> {"bb_mid", "bb_std", "bb_upper", "bb_lower"}
      [] method = "calculate_macd" ->
            {"ema_fast", "ema_slow", "macd", "macd_signal", "macd_hist"}
      [] method = "calculate_stoch_rsi" -> {"stoch_k", "stoch_d"}
      [] OTHER -> {}

\* The frame a transform returns for frame d
Applied(method, d) ==
    CASE method = "calculate_vwap" -> calculate_vwap(d)
      [] method = "calculate_cvd" -> calculate_cvd(d)
      [] method = "identify_oi_regime" -> identify_oi_regime(d)
      [] method = "detect_sfp" -> detect_sfp(d, DefaultWindow)
      [] method = "calculate_rsi" -> calculate_rsi(d)
      [] method = "calculate_mfi" -> calculate_mfi(d)
      [] method = "calculate_cmf" -> calculate_cmf(d)
      [] method = "calculate_obv" -> calculate_obv(d)
      [] method = "calculate_bollinger_bands" -> calculate_bollinger_bands(d)
      [] method = "calculate_macd" -> calculate_macd(d)
      [] method = "calculate_stoch_rsi" -> calculate_stoch_rsi(d)

\* The eleven transforms applied to d in main.py's order
RECURSIVE InMainOrder(_, _)
InMainOrder(d, k) ==
    IF k = 0 THEN d ELSE Applied(MainOrder[k], InMainOrder(d, k - 1))

\* The call just made was a transform of the fetched frame
Transformed == Len(called') > Len(called) /\ Len(called) >= 1

\* C18: a transform returns without an error whatever transforms ran before
\* it; the fields it assigns are its own and hold what it computes from the
\* fetched frame alone (calculate_stoch_rsi with or without an rsi column);
\* every other field is left as it was.  Once all eleven have run, in
\* whatever order, the frame is the one main.py's order yields.
C18_OrderIndependent ==
    [][Transformed =>
          LET method == called'[Len(called')]
              alone == Applied(method, cached[1].df)
          IN  /\ err' = "none"
              /\ DOMAIN df' = DOMAIN df \cup Writes(method)
              /\ Writes(method) \cap CandleFields = {}
              /\ \A c \in Writes(method) : df'[c] = alone[c]
              /\ \A c \in DOMAIN df \ Writes(method) : df'[c] = df[c]
              /\ \A other \in Elems(MainOrder) \ {method} :
                    Writes(other) \cap Writes(method) = {}
              /\ Len(called') = Len(MainOrder) + 1 =>
                    df' = InMainOrder(cached[1].df, Len(MainOrder))]_vars

\* all eleven have run, calculate_stoch_rsi first and calculate_rsi later,
\* on a series long enough for stoch_d
C18_Witness ==
    /\ Len(called) = Len(MainOrder) + 1
    /\ called[2] = "calculate_stoch_rsi"
    /\ called[3] # "calculate_rsi"
    /\ err = "none"
    /\ ~IsNaN(Last(df, "stoch_d"))
    /\ ~IsNaN(Last(df, "rsi"))
    /\ df = InMainOrder(cached[1].df, Len(MainOrder))

\* The candle fields a transform reads
Required(method) ==
    CASE method = "calculate_vwap" -> {"volume", "high", "low", "close"}
      [] method = "calculate_cvd" -> {"volume", "taker_buy_vol"}
      [] method = "identify_oi_regime" -> {"close", "oi"}
      [] method = "detect_sfp" -> {"low", "close", "high"}
      [] method = "calculate_rsi" -> {"close"}
      [] method = "calculate_mfi" -> {"high", "low", "close", "volume"}
      [] method = "calculate_cmf" -> {"close", "low", "high", "volume"}
      [] method = "calculate_obv" -> {"close", "volume"}
      [] method = "calculate_bollinger_bands" -> {"close"}
      [] method = "calculate_macd" -> {"close"}
      [] method = "calculate_stoch_rsi" -> {"close"}

\* C19: a transform called on a frame that lacks a candle field it reads
\* raises an error and leaves the frame exactly as it was.
C19_Original ==
    [][(Len(called') > Len(called)
        /\ ~(Required(called'[Len(called')]) \subseteq DOMAIN df)) =>
            (err' # "none" /\ df' = df)]_vars

\* C21: the returned score lies in -15 .. 15: the divergence list holds each
\* of the eight divergence texts at most once, so the divergences give
\* between -8 and +8, and the six rules give between -7 and +7.
C21_ScoreBounds ==
    Summarised =>
        /\ \A text \in DivTexts : Occurrences(div_signals, text) <= 1
        /\ Elems(div_signals) \subseteq DivTexts
        /\ DivPoints \in -8 .. 8
        /\ (summary.score - DivPoints) \in -7 .. 7
        /\ summary.score \in -15 .. 15

\* four bullish divergences and every rule bullish: the score is 15
C21_Witness ==
    /\ Summarised
    /\ DivPoints = 8
    /\ summary.score = 15

\* How many of the texts are in the returned list
ReturnedOf(texts) == Cardinality({t \in texts : Returns(t)})

\* C22: a returned signals list holds exactly one of the two VWAP texts and
\* exactly one of the two MACD texts, and at most one of the two texts of
\* each of the RSI, CMF, Bollinger and StochRSI rules; it is never empty.
C22_OnePerRule ==
    Summarised =>
        /\ ReturnedOf(VwapTexts) = 1
        /\ ReturnedOf(MacdTexts) = 1
        /\ \A texts \in {RsiTexts, CmfTexts, BollingerTexts, StochTexts} :
              ReturnedOf(texts) <= 1
        /\ Len(summary.signals) >= 2

\* a last row with every indicator undefined: the list is the VWAP and the
\* MACD text and nothing else
C22_Witness ==
    /\ Summarised
    /\ \A r \in 1 .. 6 : Undefined(RuleInputs[r])
    /\ div_signals = <<>>
    /\ Len(summary.signals) = 2

\* The symbol is not on Binance, or Binance's open-interest request raised
NoBinanceOi == ~exchange[1].in_binance \/ exchange[1].oi_raise

\* C23: a frame fetched for a symbol that is not listed on Binance, or while
\* Binance's open-interest request raises, has oi = 0 on every row, and
\* identify_oi_regime then labels every row Neutral.
C23_NoOiIsNeutral ==
    (Fetched /\ NoBinanceOi) =>
        /\ \A i \in Rows(df["close"]) : At(df["oi"], i) = Zero
        /\ Returned("identify_oi_regime") =>
              \A i \in Rows(df["close"]) : At(df["regime"], i) = Neutral

\* Binance lists the symbol but its open-interest request raised; the close
\* rises on one row and falls on another, and every row is Neutral
C23_Witness ==
    /\ Returned("identify_oi_regime")
    /\ exchange[1].in_binance
    /\ exchange[1].oi_raise
    /\ source = "binance"
    /\ \E i, j \in Rows(df["close"]) :
          /\ Gt(At(df["price_change"], i), Zero)
          /\ Lt(At(df["price_change"], j), Zero)
    /\ \A i \in Rows(df["close"]) : At(df["regime"], i) = Neutral

\* C24: on a series of any length n >= 0 that has its high and low,
\* detect_divergences returns without error and reads no row outside
\* 0 .. n-1; an index below w is rejected without a read; for n < 2w+1 the
\* list returned is empty.
C24_ShortSeriesSafe ==
    (called = <<"detect_divergences">>) =>
        LET n == NRows(df)
            l == last_idx(df)
        IN  /\ err = "none"
            /\ RowsRead(df, window) \subseteq 0 .. (n - 1)
            /\ \A i \in (l - RecentSearch - PrevSearch) .. (window - 1) :
                  CallReads(df["high"], i, window) = {}
            /\ (n < 2 * window + 1) => div_signals = <<>>

\* a series of 2w rows under the default window: the searches try negative
\* indices, no row is read, the list is empty
C24_Witness ==
    /\ called = <<"detect_divergences">>
    /\ window = DefaultWindow
    /\ NRows(df) = 2 * window
    /\ last_idx(df) - RecentSearch < 0
    /\ RowsRead(df, window) = {}
    /\ div_signals = <<>>
    /\ err = "none"

\* fetch_market_data was the last call made
JustFetched == called = <<"fetch_market_data">>

\* The pair (empty frame, empty dict)
ReturnedNothing == df = EmptyFrame /\ funding = <<>>

\* Bybit's fetch_ohlcv is reached: the markets loaded, Binance gave no
\* candles and Bybit lists the symbol
BybitAsked ==
    LET ex == exchange[1]
    IN  ex.load_ok /\ ex.in_bybit /\ (~ex.in_binance \/ ex.klines_raise)

\* C25: fetch_market_data raises nothing; its candles are Bybit's only when
\* the symbol is not on Binance or Binance's kline request raised; a symbol
\* on neither exchange, a source that returns no rows, and a raise of
\* load_markets or of Bybit's fetch_ohlcv each give (empty frame, {}).
C25_SourceOrder ==
    JustFetched =>
        LET ex == exchange[1]
        IN  /\ err = "none"
            /\ source = "bybit" => (~ex.in_binance \/ ex.klines_raise)
            /\ (ex.in_binance /\ ~ex.klines_raise /\ ex.load_ok /\ Len(ex.klines) > 0)
                   => source = "binance"
            /\ (~ex.in_binance /\ ~ex.in_bybit) => ReturnedNothing
            /\ Len(ex.klines) = 0 => ReturnedNothing
            /\ ~ex.load_ok => ReturnedNothing
            /\ (BybitAsked /\ ex.ohlcv_raise) => ReturnedNothing
            /\ ReturnedNothing <=> source = "none"

\* Binance lists the symbol and its kline request raised: the candles are
\* Bybit's
C25_Witness ==
    /\ JustFetched
    /\ exchange[1].in_binance
    /\ exchange[1].klines_raise
    /\ source = "bybit"
    /\ Len(df["close"]) = Len(exchange[1].ohlcv)
    /\ err = "none"

============================================================================
